---------------------------- MODULE Spec2Model ----------------------------
(***************************************************************************)
(* Session manager of the terminal cockpit server: pseudo-terminal backed  *)
(* sessions, the output ring buffer, the debounced state detector          *)
(* (ready / working / waiting_input / dead), lifecycle broadcasts and the  *)
(* debounced snapshot timer.                                                *)
(*                                                                         *)
(* Output chunks are sequences of characters.  A character is a string:    *)
(* printable ASCII stands for itself, "ESC" "BEL" "CR" "LF" are the        *)
(* control characters and "Uxxxx" is the glyph with that code point (the   *)
(* prompt, spinner, ellipsis and braille glyphs of the pattern tables).    *)
(***************************************************************************)
EXTENDS Integers, Sequences, FiniteSets, TLC

(***************************************************************************)
(* Program constants                                                        *)
(***************************************************************************)
RING_BUFFER_SIZE == 5000
SESSIONS_SAVE_DEBOUNCE == 1000
STATE_SILENCE_THRESHOLD == 2000
ShortFragmentLen == 15
PtyCols == 120
PtyRows == 40
MAX_ATTEMPTS == 5
\* 60 * 1000
LOCKOUT_MS == 60000
\* the window the README gives for the PIN rate limit, 15 * 60 * 1000
FifteenMinutes == 900000

(***************************************************************************)
(* Bounds of the model                                                      *)
(***************************************************************************)
MaxSessions == 1
MaxChunks == 3
MaxDeadEvents == 2
MaxClients == 2

\* Granularity of the clock: the silence window is two ticks long.
TickMs == STATE_SILENCE_THRESHOLD \div 2

(***************************************************************************)
(* Characters                                                               *)
(***************************************************************************)
CharCode ==
  ("BEL" :> 7) @@ ("LF" :> 10) @@ ("CR" :> 13) @@ ("ESC" :> 27) @@
  (" " :> 32) @@ ("$" :> 36) @@ ("(" :> 40) @@ (")" :> 41) @@ ("*" :> 42) @@
  ("/" :> 47) @@ ("0" :> 48) @@ ("2" :> 50) @@ ("3" :> 51) @@ ("7" :> 55) @@
  (";" :> 59) @@ (">" :> 62) @@ ("K" :> 75) @@ ("Y" :> 89) @@ ("[" :> 91) @@
  ("]" :> 93) @@ ("e" :> 101) @@ ("g" :> 103) @@ ("i" :> 105) @@
  ("m" :> 109) @@ ("n" :> 110) @@ ("o" :> 111) @@ ("r" :> 114) @@
  ("s" :> 115) @@ ("t" :> 116) @@ ("u" :> 117) @@ ("y" :> 121) @@
  ("U2026" :> 8230) @@ ("U2802" :> 10242)

LowerOf ==
  ("A" :> "a") @@ ("B" :> "b") @@ ("C" :> "c") @@ ("D" :> "d") @@
  ("E" :> "e") @@ ("F" :> "f") @@ ("G" :> "g") @@ ("H" :> "h") @@
  ("I" :> "i") @@ ("J" :> "j") @@ ("K" :> "k") @@ ("L" :> "l") @@
  ("M" :> "m") @@ ("N" :> "n") @@ ("O" :> "o") @@ ("P" :> "p") @@
  ("Q" :> "q") @@ ("R" :> "r") @@ ("S" :> "s") @@ ("T" :> "t") @@
  ("U" :> "u") @@ ("V" :> "v") @@ ("W" :> "w") @@ ("X" :> "x") @@
  ("Y" :> "y") @@ ("Z" :> "z")

Code(c) == CharCode[c]

\* \s of the regular expressions and the characters String.trim removes
IsWs(c) ==
  Code(c) \in ({9, 10, 11, 12, 13, 32, 160, 5760, 8232, 8233, 8239, 8287,
                12288, 65279} \cup (8192..8202))

\* line terminators, where ^ and $ match under the m flag
IsLineTerminator(c) == Code(c) \in {10, 13, 8232, 8233}

\* \w
IsWord(c) ==
  \/ Code(c) \in 48..57
  \/ Code(c) \in 65..90
  \/ Code(c) = 95
  \/ Code(c) \in 97..122

\* \d
IsDigit(c) == Code(c) \in 48..57

\* case folding of the i flag
Lower(c) == IF c \in DOMAIN LowerOf THEN LowerOf[c] ELSE c

LowerSeq(s) == [i \in 1..Len(s) |-> Lower(s[i])]

(***************************************************************************)
(* Matching helpers: positions are 1-based, s[i..j] is empty when j < i.   *)
(***************************************************************************)
MatchLit(s, i, lit) ==
  /\ i >= 1
  /\ i + Len(lit) - 1 <= Len(s)
  /\ \A k \in 1..Len(lit) : s[i + k - 1] = lit[k]

Contains(s, lit) == \E i \in 1..Len(s) : MatchLit(s, i, lit)

ContainsI(s, lit) == Contains(LowerSeq(s), LowerSeq(lit))

AllWs(s, i, j) == j <= Len(s) /\ \A k \in i..j : IsWs(s[k])

AllWord(s, i, j) == j <= Len(s) /\ \A k \in i..j : IsWord(s[k])

AllDigit(s, i, j) == j <= Len(s) /\ \A k \in i..j : IsDigit(s[k])

\* ^ under the m flag, before the character at position i
LineStart(s, i) == i = 1 \/ IsLineTerminator(s[i - 1])

\* $ under the m flag, before the character at position p
LineEnd(s, p) == p = Len(s) + 1 \/ (p <= Len(s) /\ IsLineTerminator(s[p]))

(***************************************************************************)
(* stripAnsi: /\x1B(?:[@-Z\\-_]|\[[0-?]*[ -/]*[@-~])/g replaced by ''      *)
(***************************************************************************)
RECURSIVE SkipClass(_, _, _, _)
\* first position >= i whose character is outside the code range lo..hi
SkipClass(s, i, lo, hi) ==
  IF i <= Len(s) /\ Code(s[i]) \in lo..hi
  THEN SkipClass(s, i + 1, lo, hi)
  ELSE i

\* length of the escape sequence that starts at position i, 0 when none does
EscLen(s, i) ==
  IF s[i] # "ESC" \/ i + 1 > Len(s) THEN 0
  ELSE IF Code(s[i + 1]) \in (64..90) \cup (92..95) THEN 2
  ELSE IF s[i + 1] # "[" THEN 0
  ELSE LET p == SkipClass(s, i + 2, 48, 63)
           q == SkipClass(s, p, 32, 47)
       IN  IF q <= Len(s) /\ Code(s[q]) \in 64..126 THEN q - i + 1 ELSE 0

RECURSIVE StripFrom(_, _)
StripFrom(s, i) ==
  IF i > Len(s) THEN << >>
  ELSE IF EscLen(s, i) > 0 THEN StripFrom(s, i + EscLen(s, i))
  ELSE << s[i] >> \o StripFrom(s, i + 1)

stripAnsi(str) == StripFrom(str, 1)

\* String.prototype.trim
Trim(s) ==
  LET keep == {i \in 1..Len(s) : ~IsWs(s[i])}
  IN  IF keep = {} THEN << >>
      ELSE SubSeq(s, CHOOSE i \in keep : \A j \in keep : i <= j,
                     CHOOSE i \in keep : \A j \in keep : i >= j)

(***************************************************************************)
(* Pattern tables                                                           *)
(***************************************************************************)
LitWhatWould == <<"W", "h", "a", "t", " ", "w", "o", "u", "l", "d", " ", "y", "o", "u", " ", "l", "i", "k", "e", " ", "t", "o", " ", "d", "o", "?">>
LitHowCanIHelp == <<"H", "o", "w", " ", "c", "a", "n", " ", "I", " ", "h", "e", "l", "p">>
LitWaitingForYour == <<"w", "a", "i", "t", "i", "n", "g", " ", "f", "o", "r", " ", "y", "o", "u", "r">>
LitDoYouWant == <<"D", "o", " ", "y", "o", "u", " ", "w", "a", "n", "t", " ", "t", "o", " ", "p", "r", "o", "c", "e", "e", "d">>
LitYSlashN == <<"(", "y", "/", "n", ")">>
LitBracketYn == <<"[", "Y", "/", "n", "]">>
LitBracketyN == <<"[", "y", "/", "N", "]">>
LitPressEnter == <<"P", "r", "e", "s", "s", " ", "E", "n", "t", "e", "r", " ", "t", "o", " ", "c", "o", "n", "t", "i", "n", "u", "e">>
LitAreYouSure == <<"A", "r", "e", " ", "y", "o", "u", " ", "s", "u", "r", "e">>
LitAllowOnce == <<"A", "l", "l", "o", "w", " ", "o", "n", "c", "e">>
LitAllowAlways == <<"A", "l", "l", "o", "w", " ", "a", "l", "w", "a", "y", "s">>
LitRunningStopHook == <<"r", "u", "n", "n", "i", "n", "g", " ", "s", "t", "o", "p", " ", "h", "o", "o", "k">>
LitMcpServer == <<" ", "M", "C", "P", " ", "s", "e", "r", "v", "e", "r">>
LitYouveUsed == <<"Y", "o", "u", "'", "v", "e", " ", "u", "s", "e", "d", " ">>
LitPercentOf == <<"%", " ", "o", "f">>

\* the prompt glyph, the ellipsis, the spinner glyphs and the title spinners
PromptGlyph == "U276F"
Ellipsis == "U2026"
SpinnerChars == {"U2722", "U2736", "U273B", "U273D", "U00B7", "*"}
TitleSpinnerChars ==
  {"U2810", "U2802", "U2733", "U2808", "U2820", "U2804", "U2801"}

\* /<prompt>\s{2,}/
ReadyPrompt(s) ==
  \E i \in 1..Len(s) :
    s[i] = PromptGlyph /\ i + 2 <= Len(s) /\ IsWs(s[i + 1]) /\ IsWs(s[i + 2])

\* /^\s*>\s*$/m
ReadyAngle(s) ==
  \E i \in 1..Len(s) : \E j \in i..Len(s) : \E k \in j..Len(s) :
    /\ LineStart(s, i)
    /\ AllWs(s, i, j - 1)
    /\ s[j] = ">"
    /\ AllWs(s, j + 1, k)
    /\ LineEnd(s, k + 1)

\* /\$\s*$/m
ReadyDollar(s) ==
  \E j \in 1..Len(s) : \E k \in j..Len(s) :
    s[j] = "$" /\ AllWs(s, j + 1, k) /\ LineEnd(s, k + 1)

\* READY_PATTERNS.some(p => p.test(s))
READY_PATTERNS(s) ==
  \/ ReadyPrompt(s)
  \/ ReadyAngle(s)
  \/ ReadyDollar(s)
  \/ Contains(s, LitWhatWould)
  \/ Contains(s, LitHowCanIHelp)
  \/ ContainsI(s, LitWaitingForYour)

\* WAITING_PATTERNS.some(p => p.test(s))
WAITING_PATTERNS(s) ==
  \/ ContainsI(s, LitDoYouWant)
  \/ ContainsI(s, LitYSlashN)
  \/ ContainsI(s, LitBracketYn)
  \/ ContainsI(s, LitBracketyN)
  \/ ContainsI(s, LitPressEnter)
  \/ ContainsI(s, LitAreYouSure)
  \/ ContainsI(s, LitAllowOnce)
  \/ ContainsI(s, LitAllowAlways)

\* /^[spinner]?\s?\w+<ellipsis>/
NoiseSpinnerWord(t) ==
  \E a \in {0, 1} : \E b \in {0, 1} : \E w \in 1..Len(t) :
    /\ a = 1 => (Len(t) >= 1 /\ t[1] \in SpinnerChars)
    /\ b = 1 => (Len(t) >= a + 1 /\ IsWs(t[a + 1]))
    /\ AllWord(t, a + b + 1, a + b + w)
    /\ MatchLit(t, a + b + w + 1, << Ellipsis >>)

\* /^[spinner]\s*$/
NoiseSpinnerChar(t) ==
  Len(t) >= 1 /\ t[1] \in SpinnerChars /\ AllWs(t, 2, Len(t))

\* /^0;[title spinner]\s/
NoiseTitle(t) ==
  /\ MatchLit(t, 1, <<"0", ";">>)
  /\ Len(t) >= 4
  /\ t[3] \in TitleSpinnerChars
  /\ IsWs(t[4])

\* /^\d+ MCP server/
NoiseMcp(t) ==
  \E d \in 1..Len(t) : AllDigit(t, 1, d) /\ MatchLit(t, d + 1, LitMcpServer)

\* /You've used \d+% of/
NoiseUsage(t) ==
  \E i \in 1..Len(t) : \E d \in 1..Len(t) :
    /\ MatchLit(t, i, LitYouveUsed)
    /\ AllDigit(t, i + Len(LitYouveUsed), i + Len(LitYouveUsed) + d - 1)
    /\ MatchLit(t, i + Len(LitYouveUsed) + d, LitPercentOf)

\* NOISE_PATTERNS.some(p => p.test(t))
NOISE_PATTERNS(t) ==
  \/ NoiseSpinnerWord(t)
  \/ NoiseSpinnerChar(t)
  \/ NoiseTitle(t)
  \/ ContainsI(t, LitRunningStopHook)
  \/ NoiseMcp(t)
  \/ NoiseUsage(t)

(***************************************************************************)
(* Output chunks the pseudo-terminal delivers in the model                  *)
(***************************************************************************)
\* erase-line sequence and white space: nothing is left after stripping
cBlank == <<"ESC", "[", "2", "K", " ", "CR", "LF">>
\* coloured shell prompt
cPrompt == <<"ESC", "[", "3", "2", "m", "$", " ">>
\* confirmation question with a colour reset inside it
cConfirm == <<"(", "y", "ESC", "[", "0", "m", "/", "n", ")">>
\* confirmation question followed by a prompt line
cBoth == <<"[", "Y", "/", "n", "]", "LF", ">", " ">>
\* one spinner frame
cSpinner == <<" ", "*", " ">>
\* spinner word, then a confirmation question and a shell prompt
cNoiseBoth == <<"g", "o", "U2026", "(", "y", "/", "n", ")", "LF", "$">>
\* unclassified text, 14 characters once stripped and trimmed
cFrag14 == <<"ESC", "[", "0", "m", "r", "u", "n", "n", "i", "n", "g", " ", "7", " ", "t", "e", "s", "t", "CR", "LF">>
\* unclassified text, 15 characters
cText15 == <<"r", "u", "n", "n", "i", "n", "g", " ", "7", " ", "t", "e", "s", "t", "s">>
\* window title update
cTitle == <<"ESC", "]", "0", ";", "U2802", " ", "t", "BEL">>

Chunks ==
  {cBlank, cPrompt, cConfirm, cBoth, cSpinner, cNoiseBoth, cFrag14, cText15}

\* what _detectState computes from a chunk before it looks at the session
Classify ==
  [data \in Chunks \cup {cTitle} |->
     LET stripped == stripAnsi(data)
         trimmed == Trim(stripped)
     IN  [ trimmedLength |-> Len(trimmed),
           isNoise |-> NOISE_PATTERNS(trimmed),
           isWaiting |-> WAITING_PATTERNS(stripped),
           isReady |-> READY_PATTERNS(stripped) ]]

(***************************************************************************)
(* State                                                                    *)
(***************************************************************************)
VARIABLES
  sessions,    \* SessionManager.sessions: id -> session object
  proc,        \* the child process behind each pty: running, killed, exited
  timers,      \* setTimeout tasks of the detector not yet fired or cleared
  saveTimer,   \* SessionManager._saveTimer
  emitted,     \* messages handed to broadcastAll by the last step, in order
  deadEvents,  \* per id, number of session_state_changed{dead} so far
  killedPending, \* ids killed while live with a Ready task outstanding
  nChunks,     \* chunks delivered by the steps taken so far
  last,        \* the last step: operation, session, argument, state before
  clients,     \* the Set clients of the server, in insertion order
  ws,          \* per WebSocket: readyState and the isAlive flag
  sent,        \* the ws.send calls of the last step, in order
  arrived,     \* per id, every chunk the pty has delivered, in order
  fs,          \* the snapshot file, its temporary file, and the last load
  auth,        \* the auth module: PIN, tokens, rate limiter, clock
  client       \* the browser client: its session map and the sound played

vars ==
  << sessions, proc, timers, saveTimer, emitted, deadEvents, killedPending,
     nChunks, last, clients, ws, sent, arrived, fs, auth, client >>

\* the variables outside the session manager and the WebSocket server
extVars == << fs, auth, client >>

\* the variables of the session manager and the WebSocket server
mgrVars == << sessions, proc, timers, saveTimer, emitted, deadEvents,
              killedPending, nChunks, last, clients, ws, sent, arrived >>

\* the variables of the WebSocket server
hubVars == << clients, ws >>

SessionIds == 1..MaxSessions
ClientIds == 1..MaxClients
Labels == {"api", "web"}
LiveStates == {"ready", "working", "waiting_input"}
States == LiveStates \cup {"dead"}
Null == "null"
NoTimer == 0

Msg(type, sid, state) == [type |-> type, sessionId |-> sid, state |-> state]

StateChanged(sid, state) == Msg("session_state_changed", sid, state)

\* number of session_state_changed{dead} messages for sid in a batch
DeadIn(out, sid) ==
  Cardinality({i \in 1..Len(out) : out[i] = StateChanged(sid, "dead")})

CountDead(out) == [s \in DOMAIN deadEvents |-> deadEvents[s] + DeadIn(out, s)]

\* the members of a Set kept in insertion order
Range(q) == {q[i] : i \in 1..Len(q)}

\* Set.prototype.add
SetAdd(q, x) == IF x \in Range(q) THEN q ELSE Append(q, x)

\* Set.prototype.delete
SetDelete(q, x) == SelectSeq(q, LAMBDA y : y # x)

RECURSIVE JoinRange(_, _, _)
\* the concatenation of q[i], ..., q[j]
JoinRange(q, i, j) ==
  IF i > j THEN << >>
  ELSE IF i = j THEN q[i]
  ELSE LET m == (i + j) \div 2
       IN  JoinRange(q, i, m) \o JoinRange(q, m + 1, j)

\* Array.prototype.join('')
Join(q) == JoinRange(q, 1, Len(q))

TerminalOutput(sid, data) ==
  [type |-> "terminal_output", sessionId |-> sid, data |-> data]

SessionBuffer(sid, data) ==
  [type |-> "session_buffer", sessionId |-> sid, data |-> data]

\* getSessionsForClient leaving out the sessions that are dead
GetSessionsForClient_LiveOnly ==
  [s \in {x \in DOMAIN sessions : sessions[x].state # "dead"} |->
     [ id |-> sessions[s].id,
       label |-> sessions[s].label,
       sessionType |-> sessions[s].sessionType,
       dangerouslySkipPermissions |-> sessions[s].dangerouslySkipPermissions,
       state |-> sessions[s].state,
       createdAt |-> sessions[s].createdAt ]]

\* getSessionsForClient: the client's view of every session of the registry
GetSessionsForClient ==
  [s \in DOMAIN sessions |->
     [ id |-> sessions[s].id,
       label |-> sessions[s].label,
       sessionType |-> sessions[s].sessionType,
       dangerouslySkipPermissions |-> sessions[s].dangerouslySkipPermissions,
       state |-> sessions[s].state,
       createdAt |-> sessions[s].createdAt ]]

\* the sessions_list message of the connection handler
SessionsList == [type |-> "sessions_list", sessions |-> GetSessionsForClient]

ErrorMsg == [type |-> "error"]

\* one call ws.send(data): the socket, the message, and whether the call
\* returned (ok) or threw
Attempt(c, msg, throwers) == [to |-> c, msg |-> msg, ok |-> c \notin throwers]

\* the sockets whose send may throw in a step: any of the open ones
Throwers == SUBSET {c \in Range(clients) : ws[c].readyState = "OPEN"}

\* for (const ws of set) { try { if (ws.readyState === 1) ws.send(data) }
\* catch { } }
SendLoop(recipients, msg, throwers) ==
  LET open == SelectSeq(recipients, LAMBDA c : ws[c].readyState = "OPEN")
  IN  [i \in 1..Len(open) |-> Attempt(open[i], msg, throwers)]

\* broadcastAll with the try around the loop: the first send that throws
\* ends the loop
BroadcastAll_StopOnThrow(msg, throwers) ==
  LET all == SendLoop(clients, msg, throwers)
      bad == {i \in 1..Len(all) : ~all[i].ok}
  IN  IF bad = {} THEN all
      ELSE SubSeq(all, 1, CHOOSE i \in bad : \A j \in bad : i <= j)

\* broadcastAll(msg)
BroadcastAll(msg, throwers) == SendLoop(clients, msg, throwers)

\* the callback with state changes sent to the session's subscribers only
BroadcastFn_SubscribersOnly(msg, throwers) ==
  IF "sessionId" \in DOMAIN msg
  THEN IF msg.type = "session_state_changed" /\ msg.sessionId \in DOMAIN sessions
       THEN SendLoop(sessions[msg.sessionId].subscribers, msg, throwers)
       ELSE << >>
  ELSE BroadcastAll(msg, throwers)

\* the callback given to setBroadcastFn, which _broadcast calls
BroadcastFn(msg, throwers) ==
  IF "sessionId" \in DOMAIN msg
  THEN IF msg.type = "session_state_changed"
       THEN BroadcastAll(msg, throwers)
       ELSE << >>
  ELSE BroadcastAll(msg, throwers)

\* _broadcast for each message of a batch, in order
BroadcastEach(out, throwers) ==
  Join([i \in 1..Len(out) |-> BroadcastFn(out[i], throwers)])

\* _broadcastToSession with the loop over every connected socket
BroadcastToSession_All(sid, msg, throwers) ==
  IF sid \notin DOMAIN sessions THEN << >>
  ELSE SendLoop(clients, msg, throwers)

\* _broadcastToSession(sessionId, msg)
BroadcastToSession(sid, msg, throwers) ==
  IF sid \notin DOMAIN sessions THEN << >>
  ELSE SendLoop(sessions[sid].subscribers, msg, throwers)

\* removeSubscriber(ws)
RemoveSubscriber(c) ==
  [s \in DOMAIN sessions |->
     [sessions[s] EXCEPT !.subscribers = SetDelete(@, c)]]

\* clearTimeout on a timer kept in the manager, one for all sessions
ClearTimeout_Shared(tm, handle) == {}

\* clearTimeout(handle)
ClearTimeout(tm, handle) == {t \in tm : t.id # handle}

\* the handle setTimeout returns: one no live task and no session holds
NewTimerId(tm) ==
  LET used == {t.id : t \in tm} \cup {sessions[s].stateTimer : s \in DOMAIN sessions}
  IN  CHOOSE n \in 1..(Cardinality(used) + 1) :
        n \notin used /\ \A m \in 1..(n - 1) : m \in used

\* setTimeout(() => this._setState(session, target), STATE_SILENCE_THRESHOLD)
SetTimeout(tm, handle, sid, target) ==
  tm \cup {[id |-> handle, sid |-> sid, target |-> target, elapsed |-> 0]}

\* _scheduleSave leaving a save timer that is outstanding as it is
ScheduleSave_NoRestart ==
  IF saveTimer.armed THEN saveTimer ELSE [armed |-> TRUE, elapsed |-> 0]

\* _scheduleSave: clearTimeout(this._saveTimer), then a new timer
ScheduleSave == [armed |-> TRUE, elapsed |-> 0]

\* the launch kinds createSession knows
SessionTypes == {"plain-shell", "new-claude", "resume-claude"}

\* the session object createSession registers; cols and rows are the
\* geometry of its pty, createdAt stands for the time of creation (sessions
\* are created in the order of their ids)
NewSessionOf(id, name, sessionType, danger) ==
  [ id |-> id,
    state |-> "ready",
    pty |-> TRUE,
    cols |-> PtyCols,
    rows |-> PtyRows,
    label |-> name,
    sessionType |-> sessionType,
    dangerouslySkipPermissions |-> danger,
    createdAt |-> id,
    outputBuffer |-> << >>,
    subscribers |-> << >>,
    stateTimer |-> NoTimer,
    pendingState |-> Null ]

\* _toJSON: the metadata of every session of the registry ss, in the order
\* of the Map
ToJSONOf(ss) ==
  [s \in DOMAIN ss |->
     [ id |-> ss[s].id,
       label |-> ss[s].label,
       sessionType |-> ss[s].sessionType,
       dangerouslySkipPermissions |-> ss[s].dangerouslySkipPermissions,
       createdAt |-> ss[s].createdAt,
       state |-> ss[s].state ]]

ToJSON == ToJSONOf(sessions)

\* no file at a path
NoFile == [exists |-> FALSE]

\* a file holding the text JSON.stringify made of data: all of it, or, when
\* the write was cut short, a proper prefix of it
FileOf(data, complete) == [exists |-> TRUE, data |-> data, complete |-> complete]

\* loadSessions: readFileSync and JSON.parse, [] when either throws; a
\* proper prefix of the text of an array never parses
LoadSessions(file) ==
  IF file.exists /\ file.complete THEN file.data ELSE << >>

\* the outcomes of one run of _saveSessions: it completes, one of its two
\* file operations throws, or the process dies at one of four points
SaveFaults ==
  {"none", "write_throws", "rename_throws", "crash_before_write",
   "crash_during_write", "crash_before_rename", "crash_after_rename"}

Crashes(fault) ==
  fault \in {"crash_before_write", "crash_during_write",
             "crash_before_rename", "crash_after_rename"}

\* _saveSessions writing the snapshot path itself, with no temporary file
SaveSessions_InPlace(disk, data, fault) ==
  IF fault = "crash_before_write" THEN disk
  ELSE IF fault \in {"write_throws", "crash_during_write"}
  THEN [disk EXCEPT !.file = FileOf(data, FALSE)]
  ELSE [disk EXCEPT !.file = FileOf(data, TRUE)]

\* _saveSessions: writeFileSync(tmpPath, data), renameSync(tmpPath, path),
\* both inside one try; the files after it
SaveSessions(disk, data, fault) ==
  IF fault = "crash_before_write" THEN disk
  ELSE IF fault \in {"write_throws", "crash_during_write"}
  THEN [disk EXCEPT !.tmp = FileOf(data, FALSE)]
  ELSE IF fault \in {"rename_throws", "crash_before_rename"}
  THEN [disk EXCEPT !.tmp = FileOf(data, TRUE)]
  ELSE [disk EXCEPT !.file = FileOf(data, TRUE), !.tmp = NoFile]

\* the session object of the earlier model runs: a new-claude session
NewSession(name) == NewSessionOf(1, name, "new-claude", FALSE)

\* outputBuffer.push(data) without the splice: nothing is ever dropped
PushChunk_NoSplice(buffer, data) == Append(buffer, data)

\* outputBuffer.push(data), then the splice that keeps the newest chunks
PushChunk(buffer, data) ==
  LET pushed == Append(buffer, data)
  IN  IF Len(pushed) > RING_BUFFER_SIZE
      THEN SubSeq(pushed, Len(pushed) - RING_BUFFER_SIZE + 1, Len(pushed))
      ELSE pushed

\* _setState without the early return: broadcasts even when nothing changes
SetState_Always(sess, sid, newState) ==
  [s |-> [sess EXCEPT !.state = newState],
   out |-> << StateChanged(sid, newState) >>]

\* _setState(session, newState): the session after it and what it broadcasts
SetState(sess, sid, newState) ==
  IF sess.state = newState
  THEN [s |-> sess, out |-> << >>]
  ELSE [s |-> [sess EXCEPT !.state = newState],
        out |-> << StateChanged(sid, newState) >>]

\* the Waiting and Ready branches without the clearTimeout: the previous
\* task stays outstanding next to the new one
ArmTimer_NoClear(sess, sid, tm, target) ==
  LET handle == NewTimerId(tm)
  IN  [s |-> [sess EXCEPT !.stateTimer = handle, !.pendingState = target],
       tm |-> SetTimeout(tm, handle, sid, target),
       out |-> << >>]

\* the Waiting and Ready branches keeping a task that is outstanding: the
\* first match wins
ArmTimer_KeepFirst(sess, sid, tm, target) ==
  IF \E t \in tm : t.id = sess.stateTimer
  THEN [s |-> sess, tm |-> tm, out |-> << >>]
  ELSE LET handle == NewTimerId(tm)
       IN  [s |-> [sess EXCEPT !.stateTimer = handle, !.pendingState = target],
            tm |-> SetTimeout(tm, handle, sid, target),
            out |-> << >>]

\* the Waiting and Ready branches of _detectState: clearTimeout, setTimeout
\* with the target state, _pendingState
ArmTimer(sess, sid, tm, target) ==
  LET cleared == ClearTimeout(tm, sess.stateTimer)
      handle == NewTimerId(cleared)
  IN  [s |-> [sess EXCEPT !.stateTimer = handle, !.pendingState = target],
       tm |-> SetTimeout(cleared, handle, sid, target),
       out |-> << >>]

\* the branch for real output with the short-fragment test left out
RealOutput_NoExemption(sess, sid, trimmedLength, tm) ==
  IF sess.state = "ready" \/ sess.state = "waiting_input" THEN
    LET r == SetState([sess EXCEPT !.stateTimer = NoTimer], sid, "working")
    IN  [s |-> r.s, tm |-> ClearTimeout(tm, sess.stateTimer), out |-> r.out]
  ELSE [s |-> [sess EXCEPT !.stateTimer = NoTimer],
        tm |-> ClearTimeout(tm, sess.stateTimer),
        out |-> << >>]

\* the branch for real output with the clearTimeout of the ready and
\* waiting_input case left out: the handle is dropped, the task stays
RealOutput_KeepTask(sess, sid, trimmedLength, tm) ==
  IF sess.state = "ready" \/ sess.state = "waiting_input" THEN
    LET r == SetState([sess EXCEPT !.stateTimer = NoTimer], sid, "working")
    IN  [s |-> r.s, tm |-> tm, out |-> r.out]
  ELSE IF sess.stateTimer # NoTimer /\ trimmedLength < ShortFragmentLen THEN
    [s |-> sess, tm |-> tm, out |-> << >>]
  ELSE [s |-> [sess EXCEPT !.stateTimer = NoTimer],
        tm |-> ClearTimeout(tm, sess.stateTimer),
        out |-> << >>]

\* the branch for real output with fragments of up to 15 characters, not
\* of fewer than 15, keeping the timer
RealOutput_ExemptFifteen(sess, sid, trimmedLength, tm) ==
  IF sess.state = "ready" \/ sess.state = "waiting_input" THEN
    LET r == SetState([sess EXCEPT !.stateTimer = NoTimer], sid, "working")
    IN  [s |-> r.s, tm |-> ClearTimeout(tm, sess.stateTimer), out |-> r.out]
  ELSE IF sess.stateTimer # NoTimer /\ trimmedLength <= ShortFragmentLen THEN
    [s |-> sess, tm |-> tm, out |-> << >>]
  ELSE [s |-> [sess EXCEPT !.stateTimer = NoTimer],
        tm |-> ClearTimeout(tm, sess.stateTimer),
        out |-> << >>]

\* the branch for real output with the handle of a ready or waiting_input
\* session left in place when the session goes back to working
RealOutput_KeepHandle(sess, sid, trimmedLength, tm) ==
  IF sess.state = "ready" \/ sess.state = "waiting_input" THEN
    LET r == SetState(sess, sid, "working")
    IN  [s |-> r.s, tm |-> ClearTimeout(tm, sess.stateTimer), out |-> r.out]
  ELSE IF sess.stateTimer # NoTimer /\ trimmedLength < ShortFragmentLen THEN
    [s |-> sess, tm |-> tm, out |-> << >>]
  ELSE [s |-> [sess EXCEPT !.stateTimer = NoTimer],
        tm |-> ClearTimeout(tm, sess.stateTimer),
        out |-> << >>]

\* the last branch of _detectState, for non-empty output that matches no
\* pattern: trimmedLength is trimmed.length
RealOutput(sess, sid, trimmedLength, tm) ==
  IF sess.state = "ready" \/ sess.state = "waiting_input" THEN
    LET r == SetState([sess EXCEPT !.stateTimer = NoTimer], sid, "working")
    IN  [s |-> r.s, tm |-> ClearTimeout(tm, sess.stateTimer), out |-> r.out]
  ELSE IF sess.stateTimer # NoTimer /\ trimmedLength < ShortFragmentLen THEN
    [s |-> sess, tm |-> tm, out |-> << >>]
  ELSE [s |-> [sess EXCEPT !.stateTimer = NoTimer],
        tm |-> ClearTimeout(tm, sess.stateTimer),
        out |-> << >>]

\* _detectState without the early return for a dead session
DetectState_NoDeadGuard(sess, sid, data, tm) ==
  LET c == Classify[data]
      same == [s |-> sess, tm |-> tm, out |-> << >>]
  IN  IF c.isNoise THEN same
      ELSE IF c.isWaiting THEN ArmTimer(sess, sid, tm, "waiting_input")
      ELSE IF c.isReady THEN ArmTimer(sess, sid, tm, "ready")
      ELSE IF c.trimmedLength > 0
      THEN RealOutput(sess, sid, c.trimmedLength, tm)
      ELSE same

\* _detectState with the Ready patterns tested before the Waiting patterns
DetectState_ReadyFirst(sess, sid, data, tm) ==
  LET c == Classify[data]
      same == [s |-> sess, tm |-> tm, out |-> << >>]
  IN  IF sess.state = "dead" THEN same
      ELSE IF c.isNoise THEN same
      ELSE IF c.isReady THEN ArmTimer(sess, sid, tm, "ready")
      ELSE IF c.isWaiting THEN ArmTimer(sess, sid, tm, "waiting_input")
      ELSE IF c.trimmedLength > 0
      THEN RealOutput(sess, sid, c.trimmedLength, tm)
      ELSE same

\* _detectState with the noise test after the Waiting and Ready tests
DetectState_NoiseLast(sess, sid, data, tm) ==
  LET c == Classify[data]
      same == [s |-> sess, tm |-> tm, out |-> << >>]
  IN  IF sess.state = "dead" THEN same
      ELSE IF c.isWaiting THEN ArmTimer(sess, sid, tm, "waiting_input")
      ELSE IF c.isReady THEN ArmTimer(sess, sid, tm, "ready")
      ELSE IF c.isNoise THEN same
      ELSE IF c.trimmedLength > 0
      THEN RealOutput(sess, sid, c.trimmedLength, tm)
      ELSE same

\* _detectState(session, data): the session, the timer tasks and the
\* broadcasts after it
DetectState(sess, sid, data, tm) ==
  LET c == Classify[data]
      same == [s |-> sess, tm |-> tm, out |-> << >>]
  IN  IF sess.state = "dead" THEN same
      ELSE IF c.isNoise THEN same
      ELSE IF c.isWaiting THEN ArmTimer(sess, sid, tm, "waiting_input")
      ELSE IF c.isReady THEN ArmTimer(sess, sid, tm, "ready")
      ELSE IF c.trimmedLength > 0
      THEN RealOutput(sess, sid, c.trimmedLength, tm)
      ELSE same

\* the detector tasks of session sid that are still outstanding
Pending(sid) == {t \in timers : t.sid = sid}

\* the sockets in the subscriber set of some session
Subscribed == UNION {Range(sessions[s].subscribers) : s \in DOMAIN sessions}

\* record of a step: the operation, its session and argument, how it ended
\* for its caller, and the session's state and outstanding detector tasks
\* and the subscribed sockets before it
StepR(op, sid, arg, result) ==
  [op |-> op, sid |-> sid, arg |-> arg, result |-> result,
   was |-> IF sid \in DOMAIN sessions THEN sessions[sid].state ELSE "absent",
   pending |-> Pending(sid),
   subs |-> Subscribed]

Step(op, sid, arg) == StepR(op, sid, arg, "ok")

(***************************************************************************)
(* The auth module                                                          *)
(***************************************************************************)
\* the addresses requests come from
Ips == {"a", "b"}

\* the PIN of the effective configuration: none, or one
Pins == {"", "1234"}

\* the PINs submitted
SubmittedPins == {"1234", "0000"}

\* the tokens generateToken makes, in the order it makes them
Tokens == << "t1", "t2" >>

MaxTokens == Len(Tokens)

\* the token a request carries: none, one never issued, or one of Tokens
PresentedTokens == {Null, "forged"} \cup Range(Tokens)

\* the time between two requests, and the time the model runs to
AuthTickMs == 60 * 1000
MaxNow == 2 * AuthTickMs

\* the answer to a request: the route, the address it came from, the PIN or
\* token it carried, and the HTTP status
Reply(op, from, arg, status) ==
  [op |-> op, from |-> from, arg |-> arg, status |-> status]

\* rateLimiter.get(ip) of an address with no record
NoRecord == [count |-> 0, resetAt |-> 0]

\* validatePin
ValidatePin(submitted, configPin) ==
  IF configPin = "" THEN TRUE ELSE submitted = configPin

\* checkRateLimit starting the lockout again on each rejected submission
CheckRateLimit_Extend(limiter, ip, now) ==
  LET record == limiter[ip]
  IN  IF record = NoRecord THEN [limiter |-> limiter, ok |-> TRUE]
      ELSE IF record.resetAt < now
      THEN [limiter |-> [limiter EXCEPT ![ip] = NoRecord], ok |-> TRUE]
      ELSE IF record.count < MAX_ATTEMPTS
      THEN [limiter |-> limiter, ok |-> TRUE]
      ELSE [limiter |-> [limiter EXCEPT ![ip].resetAt = now + LOCKOUT_MS],
            ok |-> FALSE]

\* checkRateLimit: the record checkRateLimit leaves, and what it returns
CheckRateLimit(limiter, ip, now) ==
  LET record == limiter[ip]
  IN  IF record = NoRecord THEN [limiter |-> limiter, ok |-> TRUE]
      ELSE IF record.resetAt < now
      THEN [limiter |-> [limiter EXCEPT ![ip] = NoRecord], ok |-> TRUE]
      ELSE [limiter |-> limiter, ok |-> record.count < MAX_ATTEMPTS]

\* recordFailedAttempt
RecordFailedAttempt(limiter, ip, now) ==
  LET record == IF limiter[ip] = NoRecord
                THEN [count |-> 0, resetAt |-> now + LOCKOUT_MS]
                ELSE limiter[ip]
      count == record.count + 1
  IN  [limiter EXCEPT ![ip] =
         [count |-> count,
          resetAt |-> IF count >= MAX_ATTEMPTS THEN now + LOCKOUT_MS
                      ELSE record.resetAt]]

\* generateToken and activeTokens.add
IssueToken(tokens) == tokens \cup {Tokens[Cardinality(tokens) + 1]}

\* the step record before any step
InitStep ==
  [op |-> "init", sid |-> 0, arg |-> Null, result |-> "ok", was |-> "absent",
   pending |-> {}, subs |-> {}]

\* no snapshot file, no temporary file, and loadSessions found nothing
NoSnapshot == [file |-> NoFile, tmp |-> NoFile, loaded |-> << >>]

\* the auth module as loaded, under the default configuration: no PIN, no
\* token issued, an empty rate limiter. now is Date.now(), counted from the
\* start; reply is the answer to the last request; fails and fifthAt count,
\* for each address, the failed submissions since its last good one and the
\* time of the fifth; rejectedAt is, for each address, the time of its first
\* 429 since its last counted submission, -1 when there is none, and
\* waited whether the last submission came more than 60 s after such a 429;
\* earned holds the tokens issued for a submission of the configured PIN
AuthInit ==
  [ pin |-> "",
    activeTokens |-> {},
    rateLimiter |-> [ip \in Ips |-> NoRecord],
    now |-> 0,
    reply |-> Reply("none", Null, Null, 0),
    fails |-> [ip \in Ips |-> 0],
    fifthAt |-> [ip \in Ips |-> 0],
    rejectedAt |-> [ip \in Ips |-> -1],
    waited |-> FALSE,
    earned |-> {} ]

(***************************************************************************)
(* The browser client                                                       *)
(***************************************************************************)
\* ids of the BUNDLED_SOUNDS table: one with a file, the synth chime, Silent
BundledSounds == {"bubble-pop", "chime", "none"}

\* the sessions the client can hear of
ClientSids == {1, 2}

\* what the client did last: the message or gesture, its session and state,
\* the state the client had recorded for the session, whether
\* playCompletionBeep was called, and the sound that played
Event(op, sid, state, prev, beep, played) ==
  [op |-> op, sid |-> sid, state |-> state, prev |-> prev, beep |-> beep,
   played |-> played]

\* playCompletionBeep: the sound it plays, Null for none
PlayCompletionBeep(sound, hasCustom) ==
  IF sound = "none" THEN Null
  ELSE IF sound = "chime" THEN "chime"
  ELSE IF sound = "custom" THEN (IF hasCustom THEN "custom" ELSE Null)
  ELSE IF sound \in BundledSounds THEN sound
  ELSE Null

\* wsReconnectDelay as loaded and after onopen, and its cap
ReconnectDelayStart == 1000
ReconnectDelayMax == 30000

\* the close code of the onclose branch that shows the login screen
AuthFailureCode == 4001

\* the close codes a connection to this server ends with: a normal close
\* and the abnormal one of a failed handshake or a dropped connection (the
\* server has no call that closes with another code)
CloseCodes == {1000, 1006}

\* the WebSocket objects of the client that are not yet closed and let go
MaxSockets == 3

Slots == 1..MaxSockets

\* a slot with no WebSocket in it
NoSocket == [readyState |-> "NONE", tok |-> Null]

\* what the connection code did last: the event, its socket and close
\* code, and how often handleMessage ran for one server message
ConnEvent(op, sock, code, handled) ==
  [op |-> op, sock |-> sock, code |-> code, handled |-> handled]

\* the connection state of the client as the page is loaded: currentToken
\* (token, Null when none is stored), which of login screen and app is
\* shown, ws (0 for null), the WebSocket objects with the token each was
\* opened with, wsReconnectDelay, whether wsReconnectTimer is outstanding,
\* and whether the server has a PIN configured
ConnInit ==
  [ token |-> Null,
    screen |-> "loading",
    ws |-> 0,
    socks |-> [s \in Slots |-> NoSocket],
    delay |-> ReconnectDelayStart,
    timer |-> FALSE,
    serverPin |-> FALSE,
    ev |-> ConnEvent("none", 0, 0, 0) ]

\* the socket the old value of ws named is let go once it is closed
Released(c) ==
  IF c.ws # 0 /\ c.socks[c.ws].readyState = "CLOSED"
  THEN [c.socks EXCEPT ![c.ws] = NoSocket]
  ELSE c.socks

FreeSlots(c) == {s \in Slots : Released(c)[s].readyState = "NONE"}

\* connectWebSocket: the app is shown, ws = new WebSocket(url with
\* currentToken), whatever ws was before
ConnectWebSocket(c) ==
  LET s == CHOOSE x \in FreeSlots(c) : \A y \in FreeSlots(c) : x <= y
  IN  [c EXCEPT !.screen = "app",
                !.socks = [Released(c) EXCEPT
                             ![s] = [readyState |-> "CONNECTING",
                                     tok |-> c.token]],
                !.ws = s]

\* scheduleReconnect: clearTimeout(wsReconnectTimer), then a new timer
ScheduleReconnect(c) == [c EXCEPT !.timer = TRUE]

\* ws.onclose of socket s with a close code: the login screen for 4001,
\* scheduleReconnect for every other code
WsOnClose(c, s, code) ==
  LET closed == [c EXCEPT !.socks[s] =
                   IF c.ws = s THEN [@ EXCEPT !.readyState = "CLOSED"]
                   ELSE NoSocket]
  IN  IF code = AuthFailureCode
      THEN [closed EXCEPT !.token = Null, !.screen = "login"]
      ELSE ScheduleReconnect(closed)

\* the upgrade handler of the server: wsAuthMiddleware on the token of the
\* URL
UpgradeAdmits(c, tok) == ~c.serverPin \/ tok = "good"

\* activeSessionId when it is null
NoActive == 0

\* sessions.keys().next().value of a Map with at least one session: the
\* Map holds the sessions in the order of their creation, the order of ids
FirstKey(map) == CHOOSE s \in DOMAIN map : \A x \in DOMAIN map : s <= x

\* the client as loaded: no session known, none active, no sound chosen
\* (getSelectedSound gives chime), no custom sound stored
ClientInit ==
  [ sessions |-> << >>,
    active |-> NoActive,
    conn |-> ConnInit,
    sound |-> "chime",
    hasCustom |-> FALSE,
    ev |-> Event("none", 0, Null, Null, FALSE, Null) ]

\* handleMessage, session_state_changed, beeping on every change to ready
StateChangedMsg_AnyReady(c, sid, state) ==
  IF sid \in DOMAIN c.sessions
  THEN LET prevState == c.sessions[sid]
           beep == state = "ready"
       IN  [c EXCEPT !.sessions[sid] = state,
                     !.ev = Event("session_state_changed", sid, state, prevState,
                                  beep,
                                  IF beep THEN PlayCompletionBeep(c.sound, c.hasCustom)
                                  ELSE Null)]
  ELSE [c EXCEPT !.ev = Event("session_state_changed", sid, state, "absent",
                              FALSE, Null)]

\* handleMessage, session_state_changed: the state of a known session is
\* recorded, and playCompletionBeep called when it was working and is ready
StateChangedMsg(c, sid, state) ==
  IF sid \in DOMAIN c.sessions
  THEN LET prevState == c.sessions[sid]
           beep == prevState = "working" /\ state = "ready"
       IN  [c EXCEPT !.sessions[sid] = state,
                     !.ev = Event("session_state_changed", sid, state, prevState,
                                  beep,
                                  IF beep THEN PlayCompletionBeep(c.sound, c.hasCustom)
                                  ELSE Null)]
  ELSE [c EXCEPT !.ev = Event("session_state_changed", sid, state, "absent",
                              FALSE, Null)]

(***************************************************************************)
(* Init: a SessionManager just constructed, no snapshot file                *)
(***************************************************************************)
Init ==
  /\ sessions = << >>
  /\ proc = << >>
  /\ timers = {}
  /\ saveTimer = [armed |-> FALSE, elapsed |-> 0]
  /\ emitted = << >>
  /\ deadEvents = [s \in SessionIds |-> 0]
  /\ killedPending = {}
  /\ nChunks = 0
  /\ last = InitStep
  /\ clients = << >>
  /\ ws = [c \in ClientIds |-> [readyState |-> "NONE", isAlive |-> FALSE]]
  /\ sent = << >>
  /\ arrived = [s \in SessionIds |-> << >>]
  /\ fs = NoSnapshot
  /\ auth = AuthInit
  /\ client = ClientInit

(***************************************************************************)
(* Operations                                                               *)
(***************************************************************************)
\* what a create step was asked for, and whether its pty.spawn returned
CreateArg(name, sessionType, spawnOk) ==
  [name |-> name, sessionType |-> sessionType, spawned |-> spawnOk]

\* createSession registering the session and scheduling the save before it
\* spawns the process
CreateSession_RegisterFirst(name, sessionType, danger, spawnOk) ==
  LET id == Cardinality(DOMAIN sessions) + 1
      ok == sessionType \in SessionTypes /\ spawnOk
  IN  /\ id \in SessionIds
      /\ last' = StepR("create", id, CreateArg(name, sessionType, spawnOk),
                       IF ok THEN "ok" ELSE "error")
      /\ IF sessionType \in SessionTypes
         THEN /\ sessions' = sessions @@
                               (id :> NewSessionOf(id, name, sessionType, danger))
              /\ proc' = proc @@ (id :> IF spawnOk THEN "running" ELSE "exited")
              /\ saveTimer' = ScheduleSave
         ELSE UNCHANGED << sessions, proc, saveTimer >>
      /\ IF ok
         THEN /\ emitted' = << Msg("session_created", id, "ready") >>
              /\ \E throwers \in Throwers :
                   sent' = BroadcastAll(emitted'[1], throwers)
         ELSE /\ emitted' = << >>
              /\ sent' = << >>
      /\ UNCHANGED << timers, deadEvents, killedPending, nChunks, hubVars,
                      arrived >>
      /\ UNCHANGED extVars

\* session_create: createSession succeeds and session_created is broadcast,
\* or it throws, on a launch kind it does not know or out of pty.spawn, and
\* nothing is registered; the handler's catch answers its caller with an error
CreateSession(name, sessionType, danger, spawnOk) ==
  LET id == Cardinality(DOMAIN sessions) + 1
      ok == sessionType \in SessionTypes /\ spawnOk
  IN  /\ id \in SessionIds
      /\ last' = StepR("create", id, CreateArg(name, sessionType, spawnOk),
                       IF ok THEN "ok" ELSE "error")
      /\ IF ok
         THEN /\ sessions' = sessions @@
                               (id :> NewSessionOf(id, name, sessionType, danger))
              /\ proc' = proc @@ (id :> "running")
              /\ saveTimer' = ScheduleSave
              /\ emitted' = << Msg("session_created", id, "ready") >>
              /\ \E throwers \in Throwers :
                   sent' = BroadcastAll(emitted'[1], throwers)
         ELSE /\ emitted' = << >>
              /\ sent' = << >>
              /\ UNCHANGED << sessions, proc, saveTimer >>
      /\ UNCHANGED << timers, deadEvents, killedPending, nChunks, hubVars,
                      arrived >>
      /\ UNCHANGED extVars

\* _handlePtyData with the state detection before the broadcast to the
\* subscribers
HandlePtyData_DetectFirst(sid, data) ==
  /\ sid \in DOMAIN sessions
  /\ proc[sid] \in {"running", "killed"}
  /\ nChunks < MaxChunks
  /\ LET buffered == [sessions[sid] EXCEPT
                        !.outputBuffer = PushChunk(@, data)]
         r == DetectState(buffered, sid, data, timers)
     IN  /\ sessions' = [sessions EXCEPT ![sid] = r.s]
         /\ timers' = r.tm
         /\ emitted' = r.out
         /\ deadEvents' = CountDead(r.out)
         /\ \E throwers \in Throwers :
              sent' = BroadcastEach(r.out, throwers)
                        \o BroadcastToSession(sid, TerminalOutput(sid, data),
                                              throwers)
  /\ arrived' = [arrived EXCEPT ![sid] = Append(@, data)]
  /\ nChunks' = nChunks + 1
  /\ last' = Step("data", sid, data)
  /\ UNCHANGED << proc, saveTimer, killedPending, hubVars >>
  /\ UNCHANGED extVars

\* ptyProcess.onData -> _handlePtyData(id, data)
HandlePtyData(sid, data) ==
  /\ sid \in DOMAIN sessions
  /\ proc[sid] \in {"running", "killed"}
  /\ nChunks < MaxChunks
  /\ LET buffered == [sessions[sid] EXCEPT
                        !.outputBuffer = PushChunk(@, data)]
         r == DetectState(buffered, sid, data, timers)
     IN  /\ sessions' = [sessions EXCEPT ![sid] = r.s]
         /\ timers' = r.tm
         /\ emitted' = r.out
         /\ deadEvents' = CountDead(r.out)
         /\ \E throwers \in Throwers :
              sent' = BroadcastToSession(sid, TerminalOutput(sid, data),
                                         throwers)
                        \o BroadcastEach(r.out, throwers)
  /\ arrived' = [arrived EXCEPT ![sid] = Append(@, data)]
  /\ nChunks' = nChunks + 1
  /\ last' = Step("data", sid, data)
  /\ UNCHANGED << proc, saveTimer, killedPending, hubVars >>
  /\ UNCHANGED extVars

\* a detector task comes due and runs _setState(session, target)
TimerFire(t) ==
  /\ t \in timers
  /\ t.elapsed >= STATE_SILENCE_THRESHOLD
  /\ LET r == SetState(sessions[t.sid], t.sid, t.target)
     IN  /\ sessions' = [sessions EXCEPT ![t.sid] = r.s]
         /\ emitted' = r.out
         /\ deadEvents' = CountDead(r.out)
         /\ \E throwers \in Throwers :
              sent' = BroadcastEach(r.out, throwers)
  /\ timers' = timers \ {t}
  /\ last' = Step("timer", t.sid, t.target)
  /\ UNCHANGED << proc, saveTimer, killedPending, nChunks, hubVars, arrived >>
  /\ UNCHANGED extVars

\* the exit handler with the line s.pty = null left out
OnExit_KeepPty(sid) ==
  /\ sid \in DOMAIN sessions
  /\ proc[sid] \in {"running", "killed"}
  /\ proc' = [proc EXCEPT ![sid] = "exited"]
  /\ timers' = ClearTimeout(timers, sessions[sid].stateTimer)
  /\ sessions' = [sessions EXCEPT ![sid].state = "dead"]
  /\ emitted' = << StateChanged(sid, "dead") >>
  /\ \E throwers \in Throwers : sent' = BroadcastEach(emitted', throwers)
  /\ deadEvents' = CountDead(emitted')
  /\ saveTimer' = ScheduleSave
  /\ last' = Step("exit", sid, Null)
  /\ UNCHANGED << killedPending, nChunks, hubVars, arrived >>
  /\ UNCHANGED extVars

\* ptyProcess.onExit: the child process has ended
OnExit(sid) ==
  /\ sid \in DOMAIN sessions
  /\ proc[sid] \in {"running", "killed"}
  /\ proc' = [proc EXCEPT ![sid] = "exited"]
  /\ timers' = ClearTimeout(timers, sessions[sid].stateTimer)
  /\ sessions' = [sessions EXCEPT ![sid].state = "dead", ![sid].pty = FALSE]
  /\ emitted' = << StateChanged(sid, "dead") >>
  /\ \E throwers \in Throwers : sent' = BroadcastEach(emitted', throwers)
  /\ deadEvents' = CountDead(emitted')
  /\ saveTimer' = ScheduleSave
  /\ last' = Step("exit", sid, Null)
  /\ UNCHANGED << killedPending, nChunks, hubVars, arrived >>
  /\ UNCHANGED extVars

\* killSession without the clearTimeout: the pending task survives the kill
KillSession_NoClear(sid) ==
  /\ deadEvents[sid] < MaxDeadEvents
  /\ last' = Step("kill", sid, Null)
  /\ IF sid \notin DOMAIN sessions
     THEN /\ emitted' = << Msg("session_killed", sid, Null) >>
          /\ \E throwers \in Throwers :
               sent' = BroadcastAll(emitted'[1], throwers)
          /\ UNCHANGED << sessions, proc, timers, saveTimer, deadEvents,
                          killedPending >>
     ELSE /\ timers' = timers
          /\ proc' = IF sessions[sid].pty /\ proc[sid] = "running"
                     THEN [proc EXCEPT ![sid] = "killed"]
                     ELSE proc
          /\ sessions' = [sessions EXCEPT ![sid].state = "dead",
                                          ![sid].pty = FALSE]
          /\ emitted' = << StateChanged(sid, "dead"),
                           Msg("session_killed", sid, Null) >>
          /\ \E throwers \in Throwers :
               sent' = BroadcastFn(emitted'[1], throwers)
                         \o BroadcastAll(emitted'[2], throwers)
          /\ deadEvents' = CountDead(emitted')
          /\ saveTimer' = ScheduleSave
          /\ killedPending' =
               IF /\ sessions[sid].state # "dead"
                  /\ \E t \in Pending(sid) : t.target = "ready"
               THEN killedPending \cup {sid}
               ELSE killedPending
  /\ UNCHANGED << nChunks, hubVars, arrived >>
  /\ UNCHANGED extVars

\* session_kill: killSession(sessionId), then session_killed is broadcast
KillSession(sid) ==
  /\ deadEvents[sid] < MaxDeadEvents
  /\ last' = Step("kill", sid, Null)
  /\ IF sid \notin DOMAIN sessions
     THEN /\ emitted' = << Msg("session_killed", sid, Null) >>
          /\ \E throwers \in Throwers :
               sent' = BroadcastAll(emitted'[1], throwers)
          /\ UNCHANGED << sessions, proc, timers, saveTimer, deadEvents,
                          killedPending >>
     ELSE /\ timers' = ClearTimeout(timers, sessions[sid].stateTimer)
          /\ proc' = IF sessions[sid].pty /\ proc[sid] = "running"
                     THEN [proc EXCEPT ![sid] = "killed"]
                     ELSE proc
          /\ sessions' = [sessions EXCEPT ![sid].state = "dead",
                                          ![sid].pty = FALSE]
          /\ emitted' = << StateChanged(sid, "dead"),
                           Msg("session_killed", sid, Null) >>
          /\ \E throwers \in Throwers :
               sent' = BroadcastFn(emitted'[1], throwers)
                         \o BroadcastAll(emitted'[2], throwers)
          /\ deadEvents' = CountDead(emitted')
          /\ saveTimer' = ScheduleSave
          /\ killedPending' =
               IF /\ sessions[sid].state # "dead"
                  /\ \E t \in Pending(sid) : t.target = "ready"
               THEN killedPending \cup {sid}
               ELSE killedPending
  /\ UNCHANGED << nChunks, hubVars, arrived >>
  /\ UNCHANGED extVars

\* the session has a process that takes input and a geometry
Writable(sid) ==
  /\ sid \in DOMAIN sessions
  /\ sessions[sid].pty
  /\ sessions[sid].state # "dead"

\* how a guarded call on the pty ends: not made, made, or made and its
\* exception caught
CallResult(sid, throws) ==
  IF ~Writable(sid) THEN "noop" ELSE IF throws THEN "caught" ELSE "called"

\* terminal_input: writeToSession(sessionId, data); the input goes to the
\* process, which is outside the model, or pty.write throws and is caught
WriteToSession(sid, throws) ==
  /\ last' = StepR("write", sid, Null, CallResult(sid, throws))
  /\ emitted' = << >>
  /\ sent' = << >>
  /\ UNCHANGED << sessions, proc, timers, saveTimer, deadEvents,
                  killedPending, nChunks, hubVars, arrived >>
  /\ UNCHANGED extVars

\* resizeSession with neither its guard nor its try
ResizeSession_NoGuard(sid, cols, rows, throws) ==
  /\ last' = StepR("resize", sid, << cols, rows >>, CallResult(sid, throws))
  /\ emitted' = << >>
  /\ sent' = << >>
  /\ sessions' = IF sid \in DOMAIN sessions
                 THEN [sessions EXCEPT ![sid].cols = cols, ![sid].rows = rows]
                 ELSE sessions
  /\ UNCHANGED << proc, timers, saveTimer, deadEvents,
                  killedPending, nChunks, hubVars, arrived >>
  /\ UNCHANGED extVars

\* terminal_resize: resizeSession(sessionId, cols, rows); pty.resize gives
\* the terminal of a live session the geometry asked for, or throws and is
\* caught
ResizeSession(sid, cols, rows, throws) ==
  /\ last' = StepR("resize", sid, << cols, rows >>, CallResult(sid, throws))
  /\ emitted' = << >>
  /\ sent' = << >>
  /\ sessions' = IF Writable(sid) /\ ~throws
                 THEN [sessions EXCEPT ![sid].cols = cols, ![sid].rows = rows]
                 ELSE sessions
  /\ UNCHANGED << proc, timers, saveTimer, deadEvents,
                  killedPending, nChunks, hubVars, arrived >>
  /\ UNCHANGED extVars

\* renameSession scheduling the save before it looks the session up
RenameSession_SaveFirst(sid, newLabel) ==
  /\ last' = Step("rename", sid, newLabel)
  /\ emitted' = << Msg("session_updated", sid, Null) >>
  /\ \E throwers \in Throwers : sent' = BroadcastAll(emitted'[1], throwers)
  /\ sessions' = IF sid \in DOMAIN sessions
                 THEN [sessions EXCEPT ![sid].label = newLabel]
                 ELSE sessions
  /\ saveTimer' = ScheduleSave
  /\ UNCHANGED << proc, timers, deadEvents, killedPending, nChunks, hubVars,
                  arrived >>
  /\ UNCHANGED extVars

\* session_rename: renameSession(sessionId, newLabel), then session_updated
RenameSession(sid, newLabel) ==
  /\ last' = Step("rename", sid, newLabel)
  /\ emitted' = << Msg("session_updated", sid, Null) >>
  /\ \E throwers \in Throwers : sent' = BroadcastAll(emitted'[1], throwers)
  /\ IF sid \in DOMAIN sessions
     THEN /\ sessions' = [sessions EXCEPT ![sid].label = newLabel]
          /\ saveTimer' = ScheduleSave
     ELSE UNCHANGED << sessions, saveTimer >>
  /\ UNCHANGED << proc, timers, deadEvents, killedPending, nChunks, hubVars,
                  arrived >>
  /\ UNCHANGED extVars

\* the snapshot timer comes due and runs _saveSessions. Either the save
\* returns, having caught what writeFileSync or renameSync threw, or the
\* process dies in it and the server is started again: a new SessionManager,
\* and loadSessions reads whatever is at the snapshot path
SaveFire(fault) ==
  /\ saveTimer.armed
  /\ saveTimer.elapsed >= SESSIONS_SAVE_DEBOUNCE
  /\ saveTimer' = [armed |-> FALSE, elapsed |-> 0]
  /\ emitted' = << >>
  /\ sent' = << >>
  /\ UNCHANGED << nChunks, auth, client >>
  /\ LET disk == SaveSessions(fs, ToJSON, fault)
     IN  IF Crashes(fault)
         THEN /\ fs' = [disk EXCEPT !.loaded = LoadSessions(disk.file)]
              /\ last' = [InitStep EXCEPT !.op = "restart", !.arg = fault]
              /\ sessions' = << >>
              /\ proc' = << >>
              /\ timers' = {}
              /\ deadEvents' = [s \in DOMAIN deadEvents |-> 0]
              /\ killedPending' = {}
              /\ clients' = << >>
              /\ ws' = [c \in DOMAIN ws |->
                          [readyState |-> "NONE", isAlive |-> FALSE]]
              /\ arrived' = [s \in DOMAIN arrived |-> << >>]
         ELSE /\ fs' = disk
              /\ last' = Step("save", 0, fault)
              /\ UNCHANGED << sessions, proc, timers, deadEvents,
                              killedPending, hubVars, arrived >>

\* time passes while no timer is due
Tick ==
  /\ timers # {} \/ saveTimer.armed
  /\ \A t \in timers : t.elapsed < STATE_SILENCE_THRESHOLD
  /\ saveTimer.armed => saveTimer.elapsed < SESSIONS_SAVE_DEBOUNCE
  /\ timers' = {[t EXCEPT !.elapsed = @ + TickMs] : t \in timers}
  /\ saveTimer' = IF saveTimer.armed
                  THEN [saveTimer EXCEPT !.elapsed = @ + TickMs]
                  ELSE saveTimer
  /\ emitted' = << >>
  /\ sent' = << >>
  /\ last' = Step("tick", 0, Null)
  /\ UNCHANGED << sessions, proc, deadEvents, killedPending, nChunks, hubVars,
                  arrived >>
  /\ UNCHANGED extVars

(***************************************************************************)
(* The WebSocket server: connections, subscriptions, heartbeat             *)
(***************************************************************************)
\* wss.on('connection'): an authenticated socket joins clients and is sent
\* the sessions list; sockets are numbered in the order they connect
Connect(c) ==
  /\ ws[c].readyState = "NONE"
  /\ \A d \in ClientIds : d < c => ws[d].readyState # "NONE"
  /\ clients' = SetAdd(clients, c)
  /\ ws' = [ws EXCEPT ![c] = [readyState |-> "OPEN", isAlive |-> TRUE]]
  /\ sent' = << Attempt(c, SessionsList, {}) >>
  /\ emitted' = << >>
  /\ last' = Step("connect", 0, c)
  /\ UNCHANGED << sessions, proc, timers, saveTimer, deadEvents,
                  killedPending, nChunks, arrived >>
  /\ UNCHANGED extVars

\* session_subscribe answering with the buffer without addSubscriber: the
\* socket gets the replay and none of the output that follows
Subscribe_ReplayOnly(c, sid) ==
  /\ c \in Range(clients)
  /\ ws[c].readyState = "OPEN"
  /\ sessions' = sessions
  /\ LET buffer == IF sid \in DOMAIN sessions
                   THEN sessions[sid].outputBuffer ELSE << >>
     IN  \E throwers \in Throwers :
           sent' = << Attempt(c, SessionBuffer(sid, Join(buffer)), throwers) >>
                     \o IF c \in throwers
                        THEN << Attempt(c, ErrorMsg, throwers) >>
                        ELSE << >>
  /\ emitted' = << >>
  /\ last' = Step("subscribe", sid, c)
  /\ UNCHANGED << proc, timers, saveTimer, deadEvents, killedPending,
                  nChunks, hubVars, arrived >>
  /\ UNCHANGED extVars

\* session_subscribe with the buffer sent through _broadcastToSession: every
\* subscriber of the session gets it
Subscribe_ToSubscribers(c, sid) ==
  /\ c \in Range(clients)
  /\ ws[c].readyState = "OPEN"
  /\ sessions' = IF sid \in DOMAIN sessions
                 THEN [sessions EXCEPT ![sid].subscribers = SetAdd(@, c)]
                 ELSE sessions
  /\ LET buffer == IF sid \in DOMAIN sessions
                   THEN sessions[sid].outputBuffer ELSE << >>
     IN  \E throwers \in Throwers :
           sent' = IF sid \in DOMAIN sessions
                   THEN SendLoop(sessions'[sid].subscribers,
                                 SessionBuffer(sid, Join(buffer)), throwers)
                   ELSE << >>
  /\ emitted' = << >>
  /\ last' = Step("subscribe", sid, c)
  /\ UNCHANGED << proc, timers, saveTimer, deadEvents, killedPending,
                  nChunks, hubVars, arrived >>
  /\ UNCHANGED extVars

\* ws.on('message') with session_subscribe: addSubscriber, then the joined
\* buffer is sent to the socket that asked; when that send throws, the
\* handler of the message event tries to send an error message.  A socket
\* delivers messages only while it is open.
Subscribe(c, sid) ==
  /\ c \in Range(clients)
  /\ ws[c].readyState = "OPEN"
  /\ sessions' = IF sid \in DOMAIN sessions
                 THEN [sessions EXCEPT ![sid].subscribers = SetAdd(@, c)]
                 ELSE sessions
  /\ LET buffer == IF sid \in DOMAIN sessions
                   THEN sessions[sid].outputBuffer ELSE << >>
     IN  \E throwers \in Throwers :
           sent' = << Attempt(c, SessionBuffer(sid, Join(buffer)), throwers) >>
                     \o IF c \in throwers
                        THEN << Attempt(c, ErrorMsg, throwers) >>
                        ELSE << >>
  /\ emitted' = << >>
  /\ last' = Step("subscribe", sid, c)
  /\ UNCHANGED << proc, timers, saveTimer, deadEvents, killedPending,
                  nChunks, hubVars, arrived >>
  /\ UNCHANGED extVars

\* the peer starts to close: readyState is no longer OPEN, the close event
\* has not been handled yet and the socket is still in clients
PeerClosing(c) ==
  /\ c \in Range(clients)
  /\ ws[c].readyState = "OPEN"
  /\ ws' = [ws EXCEPT ![c].readyState = "CLOSING"]
  /\ sent' = << >>
  /\ emitted' = << >>
  /\ last' = Step("closing", 0, c)
  /\ UNCHANGED << sessions, proc, timers, saveTimer, deadEvents,
                  killedPending, nChunks, clients, arrived >>
  /\ UNCHANGED extVars

\* the close handler without the call of removeSubscriber
OnClose_KeepSubscriber(c) ==
  /\ ws[c].readyState \in {"OPEN", "CLOSING"}
  /\ clients' = SetDelete(clients, c)
  /\ sessions' = sessions
  /\ ws' = [ws EXCEPT ![c].readyState = "CLOSED"]
  /\ sent' = << >>
  /\ emitted' = << >>
  /\ last' = Step("close", 0, c)
  /\ UNCHANGED << proc, timers, saveTimer, deadEvents, killedPending,
                  nChunks, arrived >>
  /\ UNCHANGED extVars

\* ws.on('close')
OnClose(c) ==
  /\ ws[c].readyState \in {"OPEN", "CLOSING"}
  /\ clients' = SetDelete(clients, c)
  /\ sessions' = RemoveSubscriber(c)
  /\ ws' = [ws EXCEPT ![c].readyState = "CLOSED"]
  /\ sent' = << >>
  /\ emitted' = << >>
  /\ last' = Step("close", 0, c)
  /\ UNCHANGED << proc, timers, saveTimer, deadEvents, killedPending,
                  nChunks, arrived >>
  /\ UNCHANGED extVars

\* ws.on('error'): the socket is on its way to closed, the close event
\* follows
OnError(c) ==
  /\ c \in Range(clients)
  /\ ws[c].readyState \in {"OPEN", "CLOSING"}
  /\ clients' = SetDelete(clients, c)
  /\ sessions' = RemoveSubscriber(c)
  /\ ws' = [ws EXCEPT ![c].readyState = "CLOSING"]
  /\ sent' = << >>
  /\ emitted' = << >>
  /\ last' = Step("error", 0, c)
  /\ UNCHANGED << proc, timers, saveTimer, deadEvents, killedPending,
                  nChunks, arrived >>
  /\ UNCHANGED extVars

\* ws.on('pong')
Pong(c) ==
  /\ c \in Range(clients)
  /\ ws[c].readyState = "OPEN"
  /\ ~ws[c].isAlive
  /\ ws' = [ws EXCEPT ![c].isAlive = TRUE]
  /\ sent' = << >>
  /\ emitted' = << >>
  /\ last' = Step("pong", 0, c)
  /\ UNCHANGED << sessions, proc, timers, saveTimer, deadEvents,
                  killedPending, nChunks, clients, arrived >>
  /\ UNCHANGED extVars

\* one run of pingInterval: a socket that has not answered the last ping is
\* terminated and removed, the others are marked and pinged
Heartbeat ==
  /\ clients # << >>
  /\ LET silent == {c \in Range(clients) : ~ws[c].isAlive}
     IN  /\ clients' = SelectSeq(clients, LAMBDA c : c \notin silent)
         /\ sessions' =
              [s \in DOMAIN sessions |->
                 [sessions[s] EXCEPT !.subscribers =
                    SelectSeq(@, LAMBDA c : c \notin silent)]]
         /\ ws' = [c \in ClientIds |->
                     IF c \in silent THEN [ws[c] EXCEPT !.readyState = "CLOSING"]
                     ELSE IF c \in Range(clients)
                     THEN [ws[c] EXCEPT !.isAlive = FALSE]
                     ELSE ws[c]]
  /\ sent' = << >>
  /\ emitted' = << >>
  /\ last' = Step("heartbeat", 0, Null)
  /\ UNCHANGED << proc, timers, saveTimer, deadEvents, killedPending,
                  nChunks, arrived >>
  /\ UNCHANGED extVars

Next ==
  \/ \E name \in Labels : \E spawnOk \in BOOLEAN :
       CreateSession(name, "new-claude", FALSE, spawnOk)
  \/ \E sid \in SessionIds : \E data \in Chunks : HandlePtyData(sid, data)
  \/ \E t \in timers : TimerFire(t)
  \/ \E sid \in SessionIds : OnExit(sid)
  \/ \E sid \in SessionIds : KillSession(sid)
  \/ \E sid \in SessionIds : WriteToSession(sid, FALSE)
  \/ \E sid \in SessionIds : ResizeSession(sid, PtyCols, PtyRows, FALSE)
  \/ \E sid \in SessionIds : \E newLabel \in Labels : RenameSession(sid, newLabel)
  \/ SaveFire("none")
  \/ Tick

Spec == Init /\ [][Next]_vars

(***************************************************************************)
(* The server with its WebSocket clients, over fewer chunks and labels     *)
(***************************************************************************)
HubChunks == {cPrompt, cText15}

HubLabels == {"api"}

\* the chunks one run of the server with its clients takes
HubMaxChunks == 2

NextHub ==
  \/ \E spawnOk \in BOOLEAN : \E name \in HubLabels :
       CreateSession(name, "new-claude", FALSE, spawnOk)
  \/ \E sid \in SessionIds : \E data \in HubChunks :
       nChunks < HubMaxChunks /\ HandlePtyData(sid, data)
  \/ \E t \in timers : TimerFire(t)
  \/ \E sid \in SessionIds : OnExit(sid)
  \/ \E sid \in SessionIds : KillSession(sid)
  \/ \E sid \in SessionIds : \E newLabel \in HubLabels : RenameSession(sid, newLabel)
  \/ SaveFire("none")
  \/ Tick
  \/ \E c \in ClientIds : Connect(c)
  \/ \E c \in ClientIds : \E sid \in SessionIds : Subscribe(c, sid)
  \/ \E c \in ClientIds : PeerClosing(c)
  \/ \E c \in ClientIds : OnClose(c)
  \/ \E c \in ClientIds : OnError(c)
  \/ \E c \in ClientIds : Pong(c)
  \/ Heartbeat

SpecHub == Init /\ [][NextHub]_vars

(***************************************************************************)
(* The inbound commands with all their inputs: launch kinds known and not, *)
(* writes and resizes that throw, geometries other than the spawn's        *)
(***************************************************************************)
LaunchKinds == SessionTypes \cup {"other"}

AskedCols == 80
AskedRows == 24

Geometries == {<< PtyCols, PtyRows >>, << AskedCols, AskedRows >>}

NextOps ==
  \/ \E name \in HubLabels : \E sessionType \in LaunchKinds :
       \E danger \in BOOLEAN : \E spawnOk \in BOOLEAN :
         CreateSession(name, sessionType, danger, spawnOk)
  \/ \E sid \in SessionIds : \E data \in HubChunks :
       nChunks < HubMaxChunks /\ HandlePtyData(sid, data)
  \/ \E t \in timers : TimerFire(t)
  \/ \E sid \in SessionIds : OnExit(sid)
  \/ \E sid \in SessionIds : KillSession(sid)
  \/ \E sid \in SessionIds : \E throws \in BOOLEAN : WriteToSession(sid, throws)
  \/ \E sid \in SessionIds : \E g \in Geometries : \E throws \in BOOLEAN :
       ResizeSession(sid, g[1], g[2], throws)
  \/ \E sid \in SessionIds : \E newLabel \in Labels : RenameSession(sid, newLabel)
  \/ SaveFire("none")
  \/ Tick

SpecOps == Init /\ [][NextOps]_vars

(***************************************************************************)
(* Two sessions side by side, one socket subscribed to both                *)
(***************************************************************************)
PairIds == {1, 2}

PairChunks == {cConfirm, cText15}

\* the chunks one run of the two sessions takes
PairMaxChunks == 2

PairSessions ==
  [s \in PairIds |->
     [NewSessionOf(s, IF s = 1 THEN "api" ELSE "web", "new-claude", FALSE)
        EXCEPT !.subscribers = << 1 >>]]

\* the state after two createSession calls, the snapshot save, and a socket
\* that connected and subscribed to both sessions
InitPair ==
  /\ sessions = PairSessions
  /\ proc = [s \in PairIds |-> "running"]
  /\ timers = {}
  /\ saveTimer = [armed |-> FALSE, elapsed |-> 0]
  /\ emitted = << >>
  /\ deadEvents = [s \in PairIds |-> 0]
  /\ killedPending = {}
  /\ nChunks = 0
  /\ last = [op |-> "subscribe", sid |-> 2, arg |-> 1, result |-> "ok",
             was |-> "ready", pending |-> {}, subs |-> {1}]
  /\ clients = << 1 >>
  /\ ws = [c \in ClientIds |->
            IF c = 1 THEN [readyState |-> "OPEN", isAlive |-> TRUE]
                     ELSE [readyState |-> "NONE", isAlive |-> FALSE]]
  /\ sent = << Attempt(1, SessionBuffer(2, Join(<< >>)), {}) >>
  /\ arrived = [s \in PairIds |-> << >>]
  /\ fs = [NoSnapshot EXCEPT !.file = FileOf(ToJSONOf(PairSessions), TRUE)]
  /\ auth = AuthInit
  /\ client = ClientInit

NextPair ==
  \/ \E sid \in PairIds : \E data \in PairChunks :
       nChunks < PairMaxChunks /\ HandlePtyData(sid, data)
  \/ \E t \in timers : TimerFire(t)
  \/ \E sid \in PairIds : OnExit(sid)
  \/ \E sid \in PairIds : KillSession(sid)
  \/ \E sid \in PairIds : WriteToSession(sid, FALSE)
  \/ \E sid \in PairIds : ResizeSession(sid, PtyCols, PtyRows, FALSE)
  \/ \E sid \in PairIds : RenameSession(sid, "web")
  \/ SaveFire("none")
  \/ Tick

SpecPair == InitPair /\ [][NextPair]_vars

(***************************************************************************)
(* The auth module: POST /api/auth, the REST middleware, the WebSocket     *)
(* upgrade, the clock, and a change of the configured PIN                  *)
(***************************************************************************)
\* the submission comes more than 60 s after a 429 to the same address
Waited(ip) ==
  /\ auth.rejectedAt[ip] >= 0
  /\ auth.now > auth.rejectedAt[ip] + LOCKOUT_MS

\* the count of failed submissions of an address and the time of its fifth
CountFailure(a, ip) ==
  LET n == IF a.fails[ip] < MAX_ATTEMPTS THEN a.fails[ip] + 1 ELSE a.fails[ip]
  IN  [a EXCEPT !.fails[ip] = n,
                !.fifthAt[ip] = IF a.fails[ip] < MAX_ATTEMPTS /\ n = MAX_ATTEMPTS
                                THEN a.now ELSE @]

\* validateAndIssueToken with the rate limit checked before the PIN of the
\* configuration is looked at
PostAuth_LimiterFirst(ip, pin) ==
  /\ LET chk == CheckRateLimit(auth.rateLimiter, ip, auth.now)
     IN  IF ~chk.ok
         THEN auth' = [auth EXCEPT !.rateLimiter = chk.limiter,
                                   !.rejectedAt[ip] =
                                      IF @ < 0 THEN auth.now ELSE @,
                                   !.waited = Waited(ip), !.reply = Reply("login", ip, pin, 429)]
         ELSE IF ~ValidatePin(pin, auth.pin)
         THEN auth' = [CountFailure(auth, ip) EXCEPT
                         !.rateLimiter = RecordFailedAttempt(chk.limiter, ip, auth.now),
                         !.rejectedAt[ip] = -1,
                         !.waited = Waited(ip), !.reply = Reply("login", ip, pin, 401)]
         ELSE /\ Cardinality(auth.activeTokens) < MaxTokens
              /\ auth' = [auth EXCEPT
                            !.rateLimiter = [chk.limiter EXCEPT ![ip] = NoRecord],
                            !.activeTokens = IssueToken(@),
                            !.earned = @ \cup (IssueToken(auth.activeTokens)
                                                 \ auth.activeTokens),
                            !.fails[ip] = 0,
                            !.rejectedAt[ip] = -1,
                            !.waited = Waited(ip), !.reply = Reply("login", ip, pin, 200)]
  /\ UNCHANGED << mgrVars, fs, client >>

\* POST /api/auth: validateAndIssueToken
PostAuth(ip, pin) ==
  /\ IF auth.pin = ""
     THEN /\ Cardinality(auth.activeTokens) < MaxTokens
          /\ auth' = [auth EXCEPT !.activeTokens = IssueToken(@),
                                  !.waited = Waited(ip), !.reply = Reply("login", ip, pin, 200)]
     ELSE LET chk == CheckRateLimit(auth.rateLimiter, ip, auth.now)
          IN  IF ~chk.ok
              THEN auth' = [auth EXCEPT !.rateLimiter = chk.limiter,
                                        !.rejectedAt[ip] =
                                           IF @ < 0 THEN auth.now ELSE @,
                                        !.waited = Waited(ip), !.reply = Reply("login", ip, pin, 429)]
              ELSE IF ~ValidatePin(pin, auth.pin)
              THEN auth' = [CountFailure(auth, ip) EXCEPT
                              !.rateLimiter =
                                 RecordFailedAttempt(chk.limiter, ip, auth.now),
                              !.rejectedAt[ip] = -1,
                              !.waited = Waited(ip), !.reply = Reply("login", ip, pin, 401)]
              ELSE /\ Cardinality(auth.activeTokens) < MaxTokens
                   /\ auth' = [auth EXCEPT
                                 !.rateLimiter = [chk.limiter EXCEPT ![ip] = NoRecord],
                                 !.activeTokens = IssueToken(@),
                                 !.earned =
                                    @ \cup (IssueToken(auth.activeTokens)
                                              \ auth.activeTokens),
                                 !.fails[ip] = 0,
                                 !.rejectedAt[ip] = -1,
                                 !.waited = Waited(ip), !.reply = Reply("login", ip, pin, 200)]
  /\ UNCHANGED << mgrVars, fs, client >>

\* a REST request through authMiddleware: next(), or 401
RestRequest(token) ==
  /\ auth' = [auth EXCEPT !.reply =
                Reply("rest", Null, token,
                      IF auth.pin = "" THEN 200
                      ELSE IF token = Null \/ token \notin auth.activeTokens
                      THEN 401 ELSE 200)]
  /\ UNCHANGED << mgrVars, fs, client >>

\* server.on('upgrade'): wsAuthMiddleware, then the upgrade or 401
WsUpgrade(token) ==
  /\ auth' = [auth EXCEPT !.reply =
                Reply("ws", Null, token,
                      IF auth.pin = "" THEN 101
                      ELSE IF token # Null /\ token \in auth.activeTokens
                      THEN 101 ELSE 401)]
  /\ UNCHANGED << mgrVars, fs, client >>

\* the configuration is reloaded with another PIN
SetPin(pin) ==
  /\ pin # auth.pin
  /\ auth' = [auth EXCEPT !.pin = pin, !.reply = Reply("config", Null, pin, 0)]
  /\ UNCHANGED << mgrVars, fs, client >>

\* Date.now() moves on
AuthTick ==
  /\ auth.now < MaxNow
  /\ auth' = [auth EXCEPT !.now = @ + AuthTickMs,
                          !.reply = Reply("tick", Null, Null, 0)]
  /\ UNCHANGED << mgrVars, fs, client >>

NextAuth ==
  \/ \E ip \in Ips : \E pin \in SubmittedPins : PostAuth(ip, pin)
  \/ \E token \in PresentedTokens : RestRequest(token)
  \/ \E token \in PresentedTokens : WsUpgrade(token)
  \/ \E pin \in Pins : SetPin(pin)
  \/ AuthTick

SpecAuth == Init /\ [][NextAuth]_vars

(***************************************************************************)
(* The browser client: the messages it handles and the sound settings      *)
(***************************************************************************)
\* the session lists a sessions_list message can carry
SessionLists ==
  UNION {[ids -> States] : ids \in SUBSET ClientSids}

\* handleMessage, sessions_list: the map is cleared and filled again, and
\* the first session is made active if none is
RecvSessionsList(list) ==
  /\ client' = [client EXCEPT !.sessions = list,
                              !.active = IF @ = NoActive /\ DOMAIN list # {}
                                         THEN FirstKey(list) ELSE @,
                              !.ev = Event("sessions_list", 0, Null, Null,
                                           FALSE, Null)]
  /\ UNCHANGED << mgrVars, fs, auth >>

\* handleMessage, session_state_changed
RecvStateChanged(sid, state) ==
  /\ client' = StateChangedMsg(client, sid, state)
  /\ UNCHANGED << mgrVars, fs, auth >>

\* handleMessage, session_created: sessions.set(id, session), then
\* setActiveSession(id)
RecvCreated(sid) ==
  /\ client' = [client EXCEPT
                  !.sessions = (sid :> "ready") @@ @,
                  !.active = sid,
                  !.ev = Event("session_created", sid, "ready",
                               IF sid \in DOMAIN client.sessions
                               THEN client.sessions[sid] ELSE "absent",
                               FALSE, Null)]
  /\ UNCHANGED << mgrVars, fs, auth >>

\* handleMessage, session_killed: sessions.delete(id), and when the session
\* was the active one the first that is left, or none, becomes active
RecvKilled(sid) ==
  /\ client' = [client EXCEPT
                  !.sessions = [s \in DOMAIN @ \ {sid} |-> @[s]],
                  !.active =
                     IF @ # sid THEN @
                     ELSE LET left == [s \in DOMAIN client.sessions \ {sid} |->
                                         client.sessions[s]]
                          IN  IF DOMAIN left # {} THEN FirstKey(left)
                              ELSE NoActive,
                  !.ev = Event("session_killed", sid, Null,
                               IF sid \in DOMAIN client.sessions
                               THEN client.sessions[sid] ELSE "absent",
                               FALSE, Null)]
  /\ UNCHANGED << mgrVars, fs, auth >>

\* the user picks one of the sessions shown: setActiveSession(id)
PickSession(sid) ==
  /\ sid \in DOMAIN client.sessions
  /\ client' = [client EXCEPT !.active = sid,
                              !.ev = Event("pick", sid, Null, Null, FALSE, Null)]
  /\ UNCHANGED << mgrVars, fs, auth >>

\* the sound picker: a click on a sound stores its id
SelectSound(id) ==
  /\ id \in BundledSounds \/ (id = "custom" /\ client.hasCustom)
  /\ client' = [client EXCEPT !.sound = id,
                              !.ev = Event("select", 0, Null, Null, FALSE, Null)]
  /\ UNCHANGED << mgrVars, fs, auth >>

\* the upload of a custom sound: it is stored and selected, and
\* playCompletionBeep is called
UploadSound ==
  /\ client' = [client EXCEPT
                  !.sound = "custom",
                  !.hasCustom = TRUE,
                  !.ev = Event("upload", 0, Null, Null, TRUE,
                               PlayCompletionBeep("custom", TRUE))]
  /\ UNCHANGED << mgrVars, fs, auth >>

NextClient ==
  \/ \E list \in SessionLists : RecvSessionsList(list)
  \/ \E sid \in ClientSids : \E state \in States : RecvStateChanged(sid, state)
  \/ \E sid \in ClientSids : RecvCreated(sid)
  \/ \E sid \in ClientSids : RecvKilled(sid)
  \/ \E sid \in ClientSids : PickSession(sid)
  \/ \E id \in BundledSounds \cup {"custom"} : SelectSound(id)
  \/ UploadSound

SpecClient == Init /\ [][NextClient]_vars

(***************************************************************************)
(* The snapshot file: saves that fail, and saves the process dies in       *)
(***************************************************************************)
(***************************************************************************)
(* The browser client: its WebSocket, the reconnect timer, the login screen *)
(***************************************************************************)
\* the tokens sessionStorage can hold when the page is loaded: none, one
\* the server knows, one it does not know
StoredTokens == {Null, "good", "stale"}

InitConn ==
  /\ sessions = << >>
  /\ proc = << >>
  /\ timers = {}
  /\ saveTimer = [armed |-> FALSE, elapsed |-> 0]
  /\ emitted = << >>
  /\ deadEvents = [s \in SessionIds |-> 0]
  /\ killedPending = {}
  /\ nChunks = 0
  /\ last = InitStep
  /\ clients = << >>
  /\ ws = [c \in ClientIds |-> [readyState |-> "NONE", isAlive |-> FALSE]]
  /\ sent = << >>
  /\ arrived = [s \in SessionIds |-> << >>]
  /\ fs = NoSnapshot
  /\ auth = AuthInit
  /\ \E stored \in StoredTokens : \E pin \in BOOLEAN :
       client = [ClientInit EXCEPT !.conn.token = stored,
                                   !.conn.serverPin = pin]

\* init(): with a stored token connectWebSocket; with none POST /api/auth
\* with an empty PIN, then the app when that gave a token, else the login
\* screen
LoadPage ==
  /\ client.conn.screen = "loading"
  /\ LET c == [client.conn EXCEPT !.ev = ConnEvent("load", 0, 0, 0)]
     IN  client' = [client EXCEPT !.conn =
           IF c.token # Null THEN ConnectWebSocket(c)
           ELSE IF ~c.serverPin
           THEN ConnectWebSocket([c EXCEPT !.token = "good"])
           ELSE [c EXCEPT !.screen = "login"]]
  /\ UNCHANGED << mgrVars, fs, auth >>

\* submitPin on the login screen: a token and showApp for the right PIN,
\* the login screen as before for a wrong one
SubmitPin(right) ==
  /\ client.conn.screen = "login"
  /\ LET c == [client.conn EXCEPT !.ev = ConnEvent("pin", 0, 0, 0)]
     IN  IF right
         THEN /\ FreeSlots(c) # {}
              /\ client' = [client EXCEPT !.conn =
                              ConnectWebSocket([c EXCEPT !.token = "good"])]
         ELSE client' = [client EXCEPT !.conn = c]
  /\ UNCHANGED << mgrVars, fs, auth >>

\* the server admits the upgrade: ws.onopen
WsAccepted(s) ==
  /\ client.conn.socks[s].readyState = "CONNECTING"
  /\ UpgradeAdmits(client.conn, client.conn.socks[s].tok)
  /\ client' = [client EXCEPT !.conn =
                  [@ EXCEPT !.socks[s].readyState = "OPEN",
                            !.delay = ReconnectDelayStart,
                            !.timer = FALSE,
                            !.ev = ConnEvent("open", s, 0, 0)]]
  /\ UNCHANGED << mgrVars, fs, auth >>

\* the server answers the upgrade with 401 and destroys the socket: the
\* handshake fails and ws.onclose runs with code 1006
WsRejected(s) ==
  /\ client.conn.socks[s].readyState = "CONNECTING"
  /\ ~UpgradeAdmits(client.conn, client.conn.socks[s].tok)
  /\ client' = [client EXCEPT !.conn =
                  WsOnClose([@ EXCEPT !.ev = ConnEvent("rejected", s, 1006, 0)],
                            s, 1006)]
  /\ UNCHANGED << mgrVars, fs, auth >>

\* the closing handshake of an open connection starts
WsClosing(s) ==
  /\ client.conn.socks[s].readyState = "OPEN"
  /\ client' = [client EXCEPT !.conn =
                  [@ EXCEPT !.socks[s].readyState = "CLOSING",
                            !.ev = ConnEvent("closing", s, 0, 0)]]
  /\ UNCHANGED << mgrVars, fs, auth >>

\* a connection ends, or an attempt fails: ws.onclose runs with the code
WsClosed(s, code) ==
  /\ client.conn.socks[s].readyState \in {"CONNECTING", "OPEN", "CLOSING"}
  /\ client' = [client EXCEPT !.conn =
                  WsOnClose([@ EXCEPT !.ev = ConnEvent("close", s, code, 0)],
                            s, code)]
  /\ UNCHANGED << mgrVars, fs, auth >>

\* the callback of wsReconnectTimer: connectWebSocket, then the delay is
\* doubled up to its cap
ReconnectFire ==
  /\ client.conn.timer
  /\ FreeSlots(client.conn) # {}
  /\ client' = [client EXCEPT !.conn =
                  [ConnectWebSocket([@ EXCEPT !.timer = FALSE]) EXCEPT
                     !.delay = IF @ * 2 < ReconnectDelayMax THEN @ * 2
                               ELSE ReconnectDelayMax,
                     !.ev = ConnEvent("reconnect", 0, 0, 0)]]
  /\ UNCHANGED << mgrVars, fs, auth >>

\* visibilitychange to visible while ws is closed or closing: the timer is
\* cleared, the delay set back, and connectWebSocket is called at once
VisibilityChange ==
  /\ client.conn.ws # 0
  /\ client.conn.socks[client.conn.ws].readyState \in {"CLOSED", "CLOSING"}
  /\ FreeSlots(client.conn) # {}
  /\ client' = [client EXCEPT !.conn =
                  ConnectWebSocket([@ EXCEPT
                     !.timer = FALSE,
                     !.delay = ReconnectDelayStart,
                     !.ev = ConnEvent("visible", 0, 0, 0)])]
  /\ UNCHANGED << mgrVars, fs, auth >>

\* the server broadcasts one message: ws.onmessage of every open socket
\* hands it to handleMessage
ServerMessage ==
  /\ \E s \in Slots : client.conn.socks[s].readyState = "OPEN"
  /\ client' = [client EXCEPT !.conn.ev =
                  ConnEvent("message", 0, 0,
                            Cardinality({s \in Slots :
                               client.conn.socks[s].readyState = "OPEN"}))]
  /\ UNCHANGED << mgrVars, fs, auth >>

NextConn ==
  \/ LoadPage
  \/ \E right \in BOOLEAN : SubmitPin(right)
  \/ \E s \in Slots : WsAccepted(s)
  \/ \E s \in Slots : WsRejected(s)
  \/ \E s \in Slots : WsClosing(s)
  \/ \E s \in Slots : \E code \in CloseCodes : WsClosed(s, code)
  \/ ReconnectFire
  \/ VisibilityChange
  \/ ServerMessage

SpecConn == InitConn /\ [][NextConn]_vars

\* the browser runs a timer callback that is due and the page's load
\* handler, and the server answers every connection attempt
SpecConnFair ==
  /\ SpecConn
  /\ WF_vars(LoadPage)
  /\ WF_vars(ReconnectFire)
  /\ \A s \in Slots : WF_vars(WsAccepted(s) \/ WsRejected(s))

NextSave ==
  \/ \E name \in HubLabels : CreateSession(name, "new-claude", FALSE, TRUE)
  \/ \E sid \in SessionIds : \E newLabel \in Labels : RenameSession(sid, newLabel)
  \/ \E sid \in SessionIds : KillSession(sid)
  \/ \E fault \in SaveFaults : SaveFire(fault)
  \/ Tick

SpecSave == Init /\ [][NextSave]_vars

(***************************************************************************)
(* A session whose buffer is one chunk short of its capacity                *)
(***************************************************************************)
\* RING_BUFFER_SIZE - 1 chunks that leave the detector alone: spinner frames
\* and blank lines in turn
Filler ==
  [i \in 1..(RING_BUFFER_SIZE - 1) |-> IF i % 2 = 1 THEN cSpinner ELSE cBlank]

\* the state after createSession, the snapshot save and the Filler chunks
InitRing ==
  /\ sessions = (1 :> [NewSession("api") EXCEPT !.outputBuffer = Filler])
  /\ proc = (1 :> "running")
  /\ timers = {}
  /\ saveTimer = [armed |-> FALSE, elapsed |-> 0]
  /\ emitted = << >>
  /\ deadEvents = [s \in SessionIds |-> 0]
  /\ killedPending = {}
  /\ nChunks = 0
  /\ last = [op |-> "data", sid |-> 1, arg |-> Filler[Len(Filler)],
             result |-> "ok", was |-> "ready", pending |-> {}, subs |-> {}]
  /\ clients = << >>
  /\ ws = [c \in ClientIds |-> [readyState |-> "NONE", isAlive |-> FALSE]]
  /\ sent = << >>
  /\ arrived = [s \in SessionIds |-> IF s = 1 THEN Filler ELSE << >>]
  /\ fs = [NoSnapshot EXCEPT
             !.file = FileOf(ToJSONOf(1 :> NewSession("api")), TRUE)]
  /\ auth = AuthInit
  /\ client = ClientInit

NextRing ==
  \E sid \in SessionIds : \E data \in Chunks : HandlePtyData(sid, data)

SpecRing == InitRing /\ [][NextRing]_vars

TypeOK ==
  /\ DOMAIN sessions \subseteq DOMAIN deadEvents
  /\ \A s \in DOMAIN sessions : sessions[s].state \in States
  /\ nChunks \in 0..MaxChunks

(***************************************************************************)
(* Properties                                                               *)
(***************************************************************************)
\* the chunk of the last step, classified, when that step handled a chunk
LastChunk == Classify[last.arg]

LastIsData == last.op = "data"

\* the last step handled a non-empty chunk that matches no pattern
LastIsRealOutput ==
  /\ LastIsData
  /\ ~LastChunk.isNoise /\ ~LastChunk.isWaiting /\ ~LastChunk.isReady
  /\ LastChunk.trimmedLength > 0

StateEventsIn(out) ==
  {i \in 1..Len(out) : out[i].type = "session_state_changed"}

\* C1: dead is absorbing - no step takes a session whose lifecycleState is
\* dead to ready, working or waiting_input, whatever the step is (a chunk,
\* a timer firing, write, resize, rename, kill or the exit callback).
C1_DeadAbsorbing ==
  [][\A s \in DOMAIN sessions :
       sessions[s].state = "dead" =>
         (s \in DOMAIN sessions' /\ sessions'[s].state = "dead")]_vars

\* a chunk that matches a Waiting or Ready pattern was handled for a dead
\* session, and the session is still dead
C1_Witness ==
  /\ LastIsData
  /\ last.was = "dead"
  /\ ~LastChunk.isNoise
  /\ LastChunk.isWaiting \/ LastChunk.isReady
  /\ sessions[last.sid].state = "dead"

\* C2: for every registered session the process handle is absent exactly
\* when lifecycleState is dead.
C2_HandleAbsentIffDead ==
  \A s \in DOMAIN sessions :
    (sessions[s].pty = FALSE) <=> (sessions[s].state = "dead")

\* the exit callback has just taken a live session to dead and cleared the
\* handle
C2_Witness ==
  /\ last.op = "exit"
  /\ last.was \in LiveStates
  /\ sessions[last.sid].state = "dead"
  /\ sessions[last.sid].pty = FALSE

\* C3 as stated: whenever the deferred task armed by a Ready chunk fires
\* (no chunk, kill or exit has canceled it during the silence window),
\* exactly one session_state_changed{ready} is emitted - whatever the
\* lifecycle state of the session was.
C3_ScenarioA_AnyState ==
  (last.op = "timer" /\ last.arg = "ready") =>
    emitted = << StateChanged(last.sid, "ready") >>

\* C3 amended: a chunk that matches a Ready pattern only, handled for a
\* live session, arms one task with target ready and emits nothing; when
\* that task fires, 2000 ms have passed since it was armed, the state is
\* ready, and exactly one session_state_changed{ready} is emitted if the
\* state was working or waiting_input, none if it was ready already.
C3_ScenarioA ==
  /\ ( /\ LastIsData
       /\ last.was \in LiveStates
       /\ ~LastChunk.isNoise /\ ~LastChunk.isWaiting /\ LastChunk.isReady )
     => /\ emitted = << >>
        /\ \E t \in timers :
             /\ Pending(last.sid) = {t}
             /\ t.target = "ready" /\ t.elapsed = 0
             /\ t.id = sessions[last.sid].stateTimer
  /\ (last.op = "timer" /\ last.arg = "ready")
     => /\ \A t \in last.pending : t.elapsed = STATE_SILENCE_THRESHOLD
        /\ sessions[last.sid].state = "ready"
        /\ emitted = IF last.was = "ready" THEN << >>
                     ELSE << StateChanged(last.sid, "ready") >>

\* a Ready task has fired for a working session and the event was emitted
C3_Witness ==
  /\ last.op = "timer" /\ last.arg = "ready"
  /\ last.was = "working"
  /\ emitted = << StateChanged(last.sid, "ready") >>

\* the last step handled a non-empty unclassified chunk shorter than 15
\* characters while a task armed by a Ready chunk was outstanding
ShortFragmentWhileReadyPending ==
  /\ LastIsRealOutput
  /\ LastChunk.trimmedLength < ShortFragmentLen
  /\ \E t \in last.pending : t.target = "ready"

\* C4 as stated: a short unclassified chunk that arrives while a Ready
\* task is outstanding leaves that task as it is, whatever the lifecycle
\* state of the session.
C4_ScenarioB_AnyState ==
  ShortFragmentWhileReadyPending => Pending(last.sid) = last.pending

\* C4 amended: when the state is working, a short unclassified chunk that
\* arrives while a Ready task is outstanding leaves the task as it is (same
\* handle, same target, same time elapsed), changes no state and emits
\* nothing; and a task that fires does so 2000 ms after it was armed.
C4_ScenarioB ==
  /\ (ShortFragmentWhileReadyPending /\ last.was = "working")
     => /\ Pending(last.sid) = last.pending
        /\ \E t \in last.pending : t.id = sessions[last.sid].stateTimer
        /\ sessions[last.sid].state = "working"
        /\ sessions[last.sid].pendingState = "ready"
        /\ emitted = << >>
  /\ last.op = "timer"
     => \A t \in last.pending : t.elapsed = STATE_SILENCE_THRESHOLD

\* 1000 ms after a Ready chunk a short fragment arrived for a working
\* session and the task is still there, 1000 ms into its window
C4_Witness ==
  /\ ShortFragmentWhileReadyPending
  /\ last.was = "working"
  /\ \E t \in Pending(last.sid) : t.target = "ready" /\ t.elapsed = TickMs

\* C5: a non-empty unclassified chunk handled while the state is ready or
\* waiting_input makes the state working in that step, emits exactly one
\* session_state_changed{working}, and leaves no task outstanding.
C5_ScenarioC ==
  (LastIsRealOutput /\ last.was \in {"ready", "waiting_input"})
    => /\ sessions[last.sid].state = "working"
       /\ emitted = << StateChanged(last.sid, "working") >>
       /\ Pending(last.sid) = {}
       /\ sessions[last.sid].stateTimer = NoTimer

\* real output arrived while a task was outstanding for a ready or
\* waiting_input session: the session is working and the task is gone
C5_Witness ==
  /\ LastIsRealOutput
  /\ last.was \in {"ready", "waiting_input"}
  /\ last.pending # {}
  /\ sessions[last.sid].state = "working"
  /\ timers = {}

\* C6: for a live session a chunk that is not Noise and matches a Waiting
\* pattern arms a task whose target is waiting_input, also when it matches
\* a Ready pattern too; a Ready match arms target ready only when no
\* Waiting pattern matches.
C6_ScenarioD ==
  (LastIsData /\ last.was \in LiveStates /\ ~LastChunk.isNoise
     /\ (LastChunk.isWaiting \/ LastChunk.isReady))
    => LET target == IF LastChunk.isWaiting THEN "waiting_input" ELSE "ready"
       IN  /\ \A t \in Pending(last.sid) : t.target = target
           /\ Pending(last.sid) # {}
           /\ sessions[last.sid].pendingState = target

\* a chunk that matches a Waiting and a Ready pattern has armed a task with
\* target waiting_input
C6_Witness ==
  /\ LastIsData
  /\ last.was \in LiveStates
  /\ ~LastChunk.isNoise /\ LastChunk.isWaiting /\ LastChunk.isReady
  /\ \E t \in Pending(last.sid) : t.target = "waiting_input"

\* C7: handling a chunk whose canonical text matches a Noise pattern changes
\* nothing of the detector: the session keeps its state, timer handle and
\* pending target (only the chunk is appended to its buffer), the set of
\* outstanding tasks is the same, and nothing is broadcast.
C7_NoiseNoEffect ==
  [][(last'.op = "data" /\ Classify[last'.arg].isNoise) =>
       /\ timers' = timers
       /\ emitted' = << >>
       /\ sessions' = [sessions EXCEPT ![last'.sid].outputBuffer =
                                          PushChunk(@, last'.arg)]
       /\ proc' = proc
       /\ saveTimer' = saveTimer]_vars

\* a chunk that matches a Noise pattern and also a Waiting and a Ready
\* pattern arrived while a task was outstanding, and the task is as before
C7_Witness ==
  /\ LastIsData
  /\ LastChunk.isNoise /\ LastChunk.isWaiting /\ LastChunk.isReady
  /\ last.was = "working"
  /\ last.pending # {}
  /\ Pending(last.sid) = last.pending

\* C8 as stated: a session killed while live with a Ready task outstanding
\* is dead from then on, its task never fires, and exactly one
\* session_state_changed{dead} is emitted for it over the whole run.
C8_ScenarioE ==
  \A s \in killedPending :
    /\ sessions[s].state = "dead"
    /\ Pending(s) = {}
    /\ deadEvents[s] = 1

\* C9 as stated: killSession on a dead session emits no lifecycle event and
\* changes no state; on a live session it emits one.
C9_KillIdempotent ==
  /\ (last.op = "kill" /\ last.was = "dead")
       => StateEventsIn(emitted) = {}
  /\ (last.op = "kill" /\ last.was \in LiveStates)
       => Cardinality(StateEventsIn(emitted)) = 1

\* C10 as stated: every session_state_changed emitted carries a state
\* different from the state the session had just before.
C10_NoSelfTransitionEvent ==
  \A i \in StateEventsIn(emitted) :
    emitted[i].sessionId = last.sid => emitted[i].state # last.was

\* C11: at every instant a session has at most one outstanding detector
\* task, and it is the one the session's timer handle names: a chunk that
\* arms a task (Waiting or Ready match) cancels the previous one first, so
\* two tasks armed by different chunks are never both outstanding and can
\* never both fire.
C11_OneTimerPerSession ==
  \A s \in DOMAIN sessions :
    /\ Cardinality(Pending(s)) <= 1
    /\ \A t \in Pending(s) : t.id = sessions[s].stateTimer

\* a chunk armed a task while a task armed by an earlier chunk was 1000 ms
\* into its window: only the new task is outstanding
C11_Witness ==
  /\ LastIsData
  /\ ~LastChunk.isNoise
  /\ LastChunk.isWaiting \/ LastChunk.isReady
  /\ \E t \in last.pending : t.elapsed = TickMs
  /\ Cardinality(Pending(last.sid)) = 1
  /\ \A t \in Pending(last.sid) : t.elapsed = 0 /\ t \notin last.pending

\* C12: a dead session never has an outstanding detector task: killSession
\* and the exit callback cancel the pending task, and a chunk handled while
\* the state is dead arms no task and emits no lifecycle event, whatever
\* patterns it matches.
C12_DeadHasNoTimer ==
  /\ \A s \in DOMAIN sessions :
       sessions[s].state = "dead" => Pending(s) = {}
  /\ (LastIsData /\ last.was = "dead")
       => /\ emitted = << >>
          /\ Pending(last.sid) = {}

\* a kill or the exit callback took a live session with a task outstanding
\* to dead, and the task is gone
C12_Witness ==
  /\ last.op \in {"kill", "exit"}
  /\ last.was \in LiveStates
  /\ last.pending # {}
  /\ sessions[last.sid].state = "dead"
  /\ Pending(last.sid) = {}

\* C13: after N chunks were appended to a session's buffer of capacity
\* RING_BUFFER_SIZE the buffer holds exactly min(N, RING_BUFFER_SIZE)
\* chunks, the most recent ones, whole and in arrival order; its length
\* never exceeds the capacity; and while N is within the capacity the
\* concatenation of the buffer is the concatenation of all chunks appended.
C13_RingBuffer ==
  \A s \in DOMAIN sessions :
    LET all == arrived[s]
        N == Len(all)
        buf == sessions[s].outputBuffer
        kept == IF N < RING_BUFFER_SIZE THEN N ELSE RING_BUFFER_SIZE
    IN  /\ Len(buf) = kept
        /\ Len(buf) <= RING_BUFFER_SIZE
        /\ buf = SubSeq(all, N - kept + 1, N)
        /\ N <= RING_BUFFER_SIZE => Join(buf) = Join(all)

\* two chunks more than the capacity were appended: the buffer is full, the
\* two oldest chunks are gone and the newest chunk is its last element
C13_Witness ==
  \E s \in DOMAIN sessions :
    LET all == arrived[s]
        buf == sessions[s].outputBuffer
    IN  /\ Len(all) = RING_BUFFER_SIZE + 2
        /\ Len(buf) = RING_BUFFER_SIZE
        /\ buf[1] = all[3]
        /\ buf[RING_BUFFER_SIZE] = all[Len(all)]
        /\ LastIsData /\ buf[RING_BUFFER_SIZE] = last.arg

\* positions in a batch of send calls, by message type
SendsOf(out, type) == {i \in 1..Len(out) : out[i].msg.type = type}

\* the sockets in q whose connection is open
OpenIn(q) == {c \in Range(q) : ws[c].readyState = "OPEN"}

\* C14: chunks are handled one at a time in arrival order, each buffered,
\* then sent to the subscribers, then classified: the step that handles
\* chunk k appends it to the buffer and sends terminal_output for chunk k
\* and no other chunk, once to each open subscriber; a
\* session_state_changed the chunk causes in that step is sent after every
\* terminal_output of the step; and no other step sends terminal_output,
\* so the event comes before the terminal_output of chunk k + 1.
C14_ChunkOrder ==
  [][ /\ last'.op = "data" =>
           LET sid == last'.sid
               k == Len(arrived'[sid])
               buf == sessions'[sid].outputBuffer
           IN  /\ k = Len(arrived[sid]) + 1
               /\ arrived'[sid][k] = last'.arg
               /\ buf[Len(buf)] = last'.arg
               /\ \A i \in SendsOf(sent', "terminal_output") :
                    sent'[i].msg = TerminalOutput(sid, arrived'[sid][k])
               /\ \A c \in OpenIn(sessions[sid].subscribers) :
                    Cardinality({i \in SendsOf(sent', "terminal_output") :
                                   sent'[i].to = c}) = 1
               /\ \A i \in SendsOf(sent', "terminal_output") :
                    \A j \in SendsOf(sent', "session_state_changed") : i < j
      /\ last'.op # "data" => SendsOf(sent', "terminal_output") = {}
    ]_vars

\* a chunk took the session to working while two sockets were subscribed:
\* both got the terminal_output first and the session_state_changed after
C14_Witness ==
  /\ LastIsRealOutput
  /\ last.was = "ready"
  /\ Cardinality(SendsOf(sent, "terminal_output")) = 2
  /\ \E j \in SendsOf(sent, "session_state_changed") :
       /\ sent[j].msg = StateChanged(last.sid, "working")
       /\ \A i \in SendsOf(sent, "terminal_output") : i < j

\* C15: a terminal_output for session S is sent to socket O only if O is
\* in the subscriber set of S when the chunk is handled, which means that O
\* subscribed to S and is still connected; a socket that is not subscribed
\* gets none of the session's output.
C15_OutputOnlyToSubscribers ==
  \A i \in SendsOf(sent, "terminal_output") :
    LET sid == sent[i].msg.sessionId
    IN  /\ sid \in DOMAIN sessions
        /\ sent[i].to \in Range(sessions[sid].subscribers)
        /\ sent[i].to \in last.subs
        /\ sent[i].to \in Range(clients)

\* two sockets are connected and open, one is subscribed and was sent the
\* chunk, the other is not subscribed and was sent nothing
C15_Witness ==
  /\ LastIsData
  /\ \E c, d \in OpenIn(clients) :
       /\ c \in Range(sessions[last.sid].subscribers)
       /\ d \notin Range(sessions[last.sid].subscribers)
       /\ \E i \in SendsOf(sent, "terminal_output") : sent[i].to = c /\ sent[i].ok
       /\ \A i \in 1..Len(sent) : sent[i].to # d

\* number of calls in a batch that send msg to socket c
SendsTo(out, c, msg) ==
  Cardinality({i \in 1..Len(out) : out[i].to = c /\ out[i].msg = msg})

\* C16: every session_state_changed event is sent to every socket in
\* clients whose connection is open, once, whether or not that socket has
\* subscribed to the session concerned.
C16_StateChangeToAll ==
  \A k \in StateEventsIn(emitted) :
    \A c \in OpenIn(clients) : SendsTo(sent, c, emitted[k]) = 1

\* a session_state_changed reached an open socket that is subscribed to
\* nothing
C16_Witness ==
  /\ StateEventsIn(emitted) # {}
  /\ \E c \in OpenIn(clients) :
       /\ c \notin Subscribed
       /\ c \notin last.subs
       /\ \E i \in SendsOf(sent, "session_state_changed") :
            sent[i].to = c /\ sent[i].ok

\* the sockets that were connected once and have been removed from clients
Removed == {c \in ClientIds : ws[c].readyState # "NONE" /\ c \notin Range(clients)}

C18_FailureIsolated ==
  (\E i \in 1..Len(sent) : ~sent[i].ok) =>
     /\ LastIsData =>
          \A c \in OpenIn(sessions[last.sid].subscribers) :
            SendsTo(sent, c, TerminalOutput(last.sid, last.arg)) = 1
     /\ \A k \in 1..Len(emitted) :
          \A c \in OpenIn(clients) : SendsTo(sent, c, emitted[k]) >= 1
     /\ (LastIsRealOutput /\ last.was \in {"ready", "waiting_input"}) =>
          /\ sessions[last.sid].state = "working"
          /\ emitted = << StateChanged(last.sid, "working") >>

\* the send of a lifecycle message to the first socket threw and the
\* second socket was sent the message all the same; and the same for a
\* terminal_output
C18_Witness ==
  /\ \E i, j \in SendsOf(sent, "session_state_changed") :
       /\ i < j /\ ~sent[i].ok /\ sent[j].ok
       /\ sent[i].msg = sent[j].msg /\ sent[i].to # sent[j].to
  /\ \E i, j \in SendsOf(sent, "terminal_output") :
       i < j /\ ~sent[i].ok /\ sent[j].ok

RECURSIVE InOrderConcatenation(_)
\* the chunks of q one after the other, first to last
InOrderConcatenation(q) ==
  IF q = << >> THEN << >>
  ELSE InOrderConcatenation(SubSeq(q, 1, Len(q) - 1)) \o q[Len(q)]

\* C19: a subscribe request makes the server send exactly one
\* session_buffer message, to the socket that asked and to no other, whose
\* data is the concatenation in order of the chunks in the session's buffer
\* at that moment, empty when the session id is unknown; no other step
\* sends a session_buffer.
C19_SubscribeSendsBuffer ==
  /\ last.op = "subscribe" =>
       /\ Cardinality(SendsOf(sent, "session_buffer")) = 1
       /\ \A i \in 1..Len(sent) : sent[i].to = last.arg
       /\ \A i \in SendsOf(sent, "session_buffer") :
            sent[i].msg =
              SessionBuffer(last.sid,
                IF last.sid \in DOMAIN sessions
                THEN InOrderConcatenation(sessions[last.sid].outputBuffer)
                ELSE << >>)
  /\ last.op # "subscribe" => SendsOf(sent, "session_buffer") = {}

\* a socket subscribed to a session with two chunks in its buffer while
\* another socket was subscribed, and it alone was sent the two chunks
C19_Witness ==
  /\ last.op = "subscribe"
  /\ last.sid \in DOMAIN sessions
  /\ Len(sessions[last.sid].outputBuffer) = 2
  /\ last.subs \ {last.arg} # {}
  /\ \E i \in SendsOf(sent, "session_buffer") :
       /\ sent[i].ok
       /\ sent[i].msg.data = cPrompt \o cText15

\* C20 as stated: every mutating event schedules a debounced snapshot save:
\* a session created, renamed or killed, the exit of its process, and every
\* lifecycle state change, the transitions to ready or waiting_input a
\* timer makes and the immediate transitions to working included.  After
\* such a step the save timer is armed with its full delay ahead.
C20_EveryMutationSchedulesSave ==
  /\ (last.op = "create" /\ last.sid \in DOMAIN sessions)
       => saveTimer = ScheduleSave
  /\ (last.op \in {"rename", "kill", "exit"} /\ last.was # "absent")
       => saveTimer = ScheduleSave
  /\ StateEventsIn(emitted) # {} => saveTimer = ScheduleSave

\* C21: whatever a save does, fail or be cut off by the death of the
\* process, the snapshot path holds no file or one complete snapshot, never
\* a part of one; what loadSessions returns after a restart is what that
\* file holds
C21_SnapshotCrashSafe ==
  /\ fs.file.exists => fs.file.complete
  /\ last.op = "restart" =>
       fs.loaded = (IF fs.file.exists THEN fs.file.data ELSE << >>)

\* the process died while writing a snapshot, with an earlier snapshot in
\* place: the part written is in the temporary file
C21_Witness ==
  /\ last.op = "restart"
  /\ last.arg = "crash_during_write"
  /\ fs.file.exists
  /\ fs.tmp.exists
  /\ ~fs.tmp.complete
  /\ fs.tmp.data # fs.file.data
  /\ fs.loaded = fs.file.data

\* the last step was a createSession that failed: a launch kind it does not
\* know, or pty.spawn threw
CreateFailed(step) ==
  /\ step.op = "create"
  /\ step.arg.sessionType \notin SessionTypes \/ ~step.arg.spawned

\* C22: a createSession that fails (pty.spawn throws, or the launch kind is
\* none of the three) ends in an error for its caller and leaves no partial
\* state: the registry, the processes, the detector timers and the save
\* timer are as before, and nothing is handed to the broadcast
C22_FailedCreateLeavesNothing ==
  [][CreateFailed(last') =>
       /\ last'.result = "error"
       /\ sessions' = sessions
       /\ proc' = proc
       /\ timers' = timers
       /\ saveTimer' = saveTimer
       /\ emitted' = << >>
       /\ sent' = << >>]_vars

\* pty.spawn threw for a known launch kind while no save was scheduled
C22_Witness ==
  /\ CreateFailed(last)
  /\ last.arg.sessionType \in SessionTypes
  /\ last.result = "error"
  /\ sessions = << >>
  /\ ~saveTimer.armed

\* C23: a write or a resize for an absent or dead session does not call the
\* pty, and one whose pty call throws on a live session catches it: either
\* way the call returns, and no session, process, timer or save timer
\* changes and nothing is emitted
C23_WriteResizeNoOps ==
  [][(/\ last'.op \in {"write", "resize"}
      /\ last'.was \in {"absent", "dead"} \/ last'.result = "caught") =>
       /\ last'.result = IF last'.was \in {"absent", "dead"}
                         THEN "noop" ELSE "caught"
       /\ sessions' = sessions
       /\ proc' = proc
       /\ timers' = timers
       /\ saveTimer' = saveTimer
       /\ emitted' = << >>
       /\ sent' = << >>]_vars

\* a resize to another geometry threw on a live session
C23_Witness ==
  /\ last.op = "resize"
  /\ last.result = "caught"
  /\ last.was = "working"
  /\ last.arg # << sessions[last.sid].cols, sessions[last.sid].rows >>

\* C24: renameSession on a registered session, live or dead, changes its
\* label and nothing else of it and schedules the save; on an absent one it
\* changes neither; it touches no process and no detector timer and emits
\* no session_state_changed
C24_RenameOnlyLabel ==
  [][last'.op = "rename" =>
       /\ IF last'.was = "absent"
          THEN sessions' = sessions /\ saveTimer' = saveTimer
          ELSE /\ sessions' = [sessions EXCEPT ![last'.sid].label = last'.arg]
               /\ saveTimer' = ScheduleSave
       /\ proc' = proc
       /\ timers' = timers
       /\ StateEventsIn(emitted') = {}]_vars

\* a dead session was given another label
C24_Witness ==
  /\ last.op = "rename"
  /\ last.was = "dead"
  /\ sessions[last.sid].label = last.arg
  /\ sessions[last.sid].label # "api"
  /\ saveTimer = [armed |-> TRUE, elapsed |-> 0]

\* C26: the pty of every live session has 120 columns and 40 rows
C26_GeometryFixed ==
  \A s \in DOMAIN sessions :
    sessions[s].state # "dead" =>
      sessions[s].cols = PtyCols /\ sessions[s].rows = PtyRows

\* the operations of one session that C25 names
SessionOps == {"data", "timer", "kill", "exit", "write", "resize", "rename"}

\* C25: a chunk, a timer firing, a kill, an exit, a write, a resize or a
\* rename of one session leaves every other session's record (lifecycle
\* state, buffer, subscribers, timer handle, pty), its outstanding detector
\* tasks and its process as they were
C25_SessionsIsolated ==
  [][last'.op \in SessionOps =>
       \A b \in DOMAIN sessions \ {last'.sid} :
         /\ sessions'[b] = sessions[b]
         /\ {t \in timers' : t.sid = b} = {t \in timers : t.sid = b}
         /\ proc'[b] = proc[b]]_vars

\* session 1 took a chunk that made it working while session 2 had a
\* chunk in its buffer and a detector task outstanding
C25_Witness ==
  /\ last.op = "data" /\ last.sid = 1
  /\ sessions[1].state = "working"
  /\ Pending(2) # {}
  /\ sessions[2].outputBuffer # << >>
  /\ sessions[2].subscribers = << 1 >>

\* the address has made five failed submissions, the fifth less than
\* fifteen minutes ago
LockedOut(ip) ==
  /\ auth.fails[ip] >= MAX_ATTEMPTS
  /\ auth.now - auth.fifthAt[ip] < FifteenMinutes

\* C27: with a PIN configured, a submission from an address that has made
\* five failed submissions is rejected with 429 until fifteen minutes have
\* passed since the fifth, and a submission changes the rate limiter record
\* of no other address
C27_FiveAttemptsPerFifteenMinutes ==
  [][(auth' # auth /\ auth'.reply.op = "login") =>
       LET ip == auth'.reply.from
       IN  /\ (auth.pin # "" /\ LockedOut(ip)) => auth'.reply.status = 429
           /\ \A other \in Ips \ {ip} :
                auth'.rateLimiter[other] = auth.rateLimiter[other]]_vars

\* C28: while the PIN of the configuration is empty, a REST request and a
\* WebSocket upgrade are admitted with any token or none, and POST /api/auth
\* answers 200 with a new token whatever PIN is sent and leaves the rate
\* limiter as it was
C28_EmptyPinDisablesAuth ==
  [][(auth.pin = "" /\ auth' # auth) =>
       /\ auth'.reply.op = "rest" => auth'.reply.status = 200
       /\ auth'.reply.op = "ws" => auth'.reply.status = 101
       /\ auth'.reply.op = "login" =>
            /\ auth'.reply.status = 200
            /\ auth'.activeTokens \ auth.activeTokens # {}
            /\ auth'.rateLimiter = auth.rateLimiter]_vars

\* with no PIN configured, an address the rate limiter holds locked out
\* posted a PIN and got a token
C28_Witness ==
  /\ auth.pin = ""
  /\ auth.reply.op = "login"
  /\ auth.reply.status = 200
  /\ auth.rateLimiter[auth.reply.from].count >= MAX_ATTEMPTS
  /\ auth.rateLimiter[auth.reply.from].resetAt >= auth.now

\* the client's last event was a session_state_changed to ready for a
\* session it had recorded as working
Completed ==
  /\ client.ev.op = "session_state_changed"
  /\ client.ev.state = "ready"
  /\ client.ev.prev = "working"

SubstantialWhileWorking(step) ==
  /\ step.op = "data"
  /\ step.was = "working"
  /\ ~Classify[step.arg].isNoise
  /\ ~Classify[step.arg].isWaiting
  /\ ~Classify[step.arg].isReady
  /\ Classify[step.arg].trimmedLength >= ShortFragmentLen

\* C30: a non-empty unclassified chunk of 15 or more characters, arriving in
\* state working, leaves the session working with no timer handle and no
\* detector task outstanding and emits nothing, so the task it canceled
\* never fires; a session with no detector task gets one only from a
\* chunk that matches a Waiting or a Ready pattern and is not noise; and
\* while it has none, only a kill or the exit of its process, which make it
\* dead, take it out of working
C30_SubstantialOutputCancelsTimer ==
  [][/\ SubstantialWhileWorking(last') =>
          /\ sessions'[last'.sid].state = "working"
          /\ sessions'[last'.sid].stateTimer = NoTimer
          /\ {t \in timers' : t.sid = last'.sid} = {}
          /\ emitted' = << >>
     /\ \A s \in DOMAIN sessions :
          (Pending(s) = {} /\ {t \in timers' : t.sid = s} # {}) =>
            /\ last'.op = "data" /\ last'.sid = s
            /\ ~Classify[last'.arg].isNoise
            /\ Classify[last'.arg].isWaiting \/ Classify[last'.arg].isReady
     /\ \A s \in DOMAIN sessions :
          (/\ sessions[s].state = "working"
           /\ Pending(s) = {}
           /\ sessions'[s].state # "working") =>
            /\ sessions'[s].state = "dead"
            /\ last'.op \in {"kill", "exit"} /\ last'.sid = s]_vars

\* a chunk of exactly 15 characters canceled an outstanding detector task
C30_Witness ==
  /\ SubstantialWhileWorking(last)
  /\ Classify[last.arg].trimmedLength = ShortFragmentLen
  /\ last.pending # {}
  /\ Pending(last.sid) = {}
  /\ sessions[last.sid].state = "working"

\* the chunk matches a Waiting or a Ready pattern and is not noise
Decisive(data) ==
  /\ ~Classify[data].isNoise
  /\ Classify[data].isWaiting \/ Classify[data].isReady

\* the target of the task a decisive chunk arms
TargetOf(data) == IF Classify[data].isWaiting THEN "waiting_input" ELSE "ready"

\* the last decisive chunk of a buffer, Null when it has none
LastDecisive(buf) ==
  LET idx == {i \in 1..Len(buf) : Decisive(buf[i])}
  IN  IF idx = {} THEN Null
      ELSE buf[CHOOSE i \in idx : \A j \in idx : j <= i]

\* C31: a decisive chunk that arrives for a live session while a task is
\* outstanding replaces it by one task with the chunk's own target and a
\* full silence window ahead; and the task that fires has waited 2000 ms
\* and carries the target of the last decisive chunk the session received
C31_LatestMatchWins ==
  /\ (LastIsData /\ last.was \in LiveStates /\ Decisive(last.arg)) =>
       \E t \in timers :
         /\ Pending(last.sid) = {t}
         /\ t.elapsed = 0
         /\ t.target = TargetOf(last.arg)
  /\ last.op = "timer" =>
       /\ Pending(last.sid) = {}
       /\ \E t \in last.pending :
            /\ last.pending = {t}
            /\ t.elapsed = STATE_SILENCE_THRESHOLD
            /\ t.target = last.arg
       /\ LastDecisive(sessions[last.sid].outputBuffer) # Null
       /\ last.arg = TargetOf(LastDecisive(sessions[last.sid].outputBuffer))

\* a Ready chunk and then, with its task outstanding, a Waiting chunk
\* arrived, and the one task that fired made the session waiting_input
C31_Witness ==
  /\ last.op = "timer"
  /\ last.arg = "waiting_input"
  /\ sessions[last.sid].state = "waiting_input"
  /\ \E i \in 1..(Len(sessions[last.sid].outputBuffer) - 1) :
       /\ TargetOf(sessions[last.sid].outputBuffer[i]) = "ready"
       /\ Decisive(sessions[last.sid].outputBuffer[i])
       /\ sessions[last.sid].outputBuffer[i + 1] = cConfirm
  /\ emitted = << StateChanged(last.sid, "waiting_input") >>

\* the step scheduled a snapshot save: a session was created, a registered
\* one renamed or killed, or a process exited
SchedulesSave(step) ==
  \/ step.op = "create" /\ step.result = "ok"
  \/ step.op \in {"rename", "kill"} /\ step.was # "absent"
  \/ step.op = "exit"

\* C32: every save-scheduling event leaves one save timer with the full
\* 1000 ms ahead, whatever was outstanding; the snapshot file is written
\* only by the save timer firing, 1000 ms after the last such event, and
\* the write holds one record for every registered session with the
\* metadata of that moment and leaves no save timer outstanding
C32_SaveDebounced ==
  [][/\ SchedulesSave(last') => saveTimer' = [armed |-> TRUE, elapsed |-> 0]
     /\ fs' # fs => last'.op = "save"
     /\ last'.op = "save" =>
          /\ saveTimer.armed
          /\ saveTimer.elapsed = SESSIONS_SAVE_DEBOUNCE
          /\ ~saveTimer'.armed
          /\ fs'.file = FileOf(ToJSONOf(sessions'), TRUE)
          /\ DOMAIN fs'.file.data = DOMAIN sessions'
          /\ \A s \in DOMAIN sessions' :
               /\ fs'.file.data[s].label = sessions'[s].label
               /\ fs'.file.data[s].state = sessions'[s].state]_vars

\* a session was created, then renamed and killed while the save timer was
\* outstanding, and the one write that followed holds its last label and
\* the state dead, with no earlier snapshot written
C32_Witness ==
  /\ last.op = "save"
  /\ fs.file.exists
  /\ \E s \in DOMAIN sessions :
       /\ sessions[s].state = "dead"
       /\ sessions[s].label = "web"
       /\ fs.file.data[s].state = "dead"
       /\ fs.file.data[s].label = "web"
  /\ ~saveTimer.armed

C35_HandleMeansPendingTimer ==
  /\ \A s \in DOMAIN sessions :
       sessions[s].state = "working" =>
         /\ sessions[s].stateTimer # NoTimer <=> Pending(s) # {}
         /\ \A t \in Pending(s) : t.id = sessions[s].stateTimer
  /\ (/\ LastIsRealOutput
      /\ last.was = "working"
      /\ LastChunk.trimmedLength < ShortFragmentLen
      /\ sessions[last.sid].stateTimer # NoTimer) =>
        /\ last.pending # {}
        /\ Pending(last.sid) = last.pending

\* a Ready task fired and left its handle behind, and the 14-character
\* fragment that followed was not ignored: it took the session back to
\* working with no handle and nothing outstanding
C35_Witness ==
  /\ LastIsRealOutput
  /\ last.arg = cFrag14
  /\ last.was = "ready"
  /\ last.pending = {}
  /\ sessions[last.sid].state = "working"
  /\ sessions[last.sid].stateTimer = NoTimer
  /\ Pending(last.sid) = {}
  /\ sessions[last.sid].outputBuffer = << cPrompt, cFrag14 >>

\* the last n elements of q
Tail_n(q, n) == SubSeq(q, Len(q) - n + 1, Len(q))

\* C36: the replay and the live stream join without gap or duplicate.  The
\* step in which a socket subscribes to a session it was not subscribed to
\* sends it one session_buffer holding, in arrival order, the chunks
\* retained then, which are the newest of the chunks that have arrived, and
\* leaves the socket in the subscriber set once; every later chunk is sent
\* in the step that handles it, once, to each subscriber whose socket is
\* open; and a socket leaves the subscriber set only when its connection
\* is closed, fails or is terminated by the heartbeat.
C36_ReplayJoinsLive ==
  [][/\ (/\ last'.op = "subscribe"
         /\ last'.sid \in DOMAIN sessions
         /\ last'.arg \notin Range(sessions[last'.sid].subscribers)) =>
          LET sid == last'.sid
              c == last'.arg
              buf == sessions[sid].outputBuffer
              subs == sessions'[sid].subscribers
          IN  /\ buf = Tail_n(arrived[sid], Len(buf))
              /\ Len(arrived[sid]) <= RING_BUFFER_SIZE => buf = arrived[sid]
              /\ sent'[1] = [to |-> c, ok |-> sent'[1].ok,
                             msg |-> SessionBuffer(sid, InOrderConcatenation(buf))]
              /\ SendsOf(sent', "session_buffer") = {1}
              /\ SendsOf(sent', "terminal_output") = {}
              /\ Cardinality({i \in 1..Len(subs) : subs[i] = c}) = 1
              /\ arrived' = arrived
     /\ last'.op = "data" =>
          LET sid == last'.sid
              k == Len(arrived[sid]) + 1
          IN  /\ Len(arrived'[sid]) = k
              /\ SubSeq(arrived'[sid], 1, k - 1) = arrived[sid]
              /\ \A c \in OpenIn(sessions[sid].subscribers) :
                   \E i \in 1..Len(sent') :
                     /\ sent'[i].to = c
                     /\ sent'[i].msg = TerminalOutput(sid, arrived'[sid][k])
                     /\ \A j \in SendsOf(sent', "terminal_output") :
                          sent'[j].to = c => j = i
              /\ sessions'[sid].subscribers = sessions[sid].subscribers
     /\ \A s \in DOMAIN sessions :
          \A c \in Range(sessions[s].subscribers) :
            c \notin Range(sessions'[s].subscribers) =>
              last'.op \in {"close", "error", "heartbeat"}
    ]_vars

\* the second chunk of a session was sent as terminal_output to a socket
\* that had subscribed to it and is still open
C36_Witness ==
  /\ last.op = "data"
  /\ arrived[last.sid] = << cPrompt, cText15 >>
  /\ \E c \in OpenIn(sessions[last.sid].subscribers) :
       \E i \in 1..Len(sent) :
         /\ sent[i].to = c
         /\ sent[i].ok
         /\ sent[i].msg = TerminalOutput(last.sid, cText15)

\* C37: a registered session is never removed from the registry.  No step
\* takes a session out of the Map, so getSession and the list of all
\* sessions keep returning it; a dead session stays dead; the sessions_list
\* sent to a socket that connects and every snapshot written hold a record
\* for every registered session, the dead ones included, with its state.
C37_NeverRemoved ==
  [][/\ DOMAIN sessions \subseteq DOMAIN sessions'
     /\ \A s \in DOMAIN sessions :
          /\ sessions'[s].id = sessions[s].id
          /\ sessions[s].state = "dead" => sessions'[s].state = "dead"
     /\ last'.op = "connect" =>
          /\ Len(sent') = 1
          /\ sent'[1].msg.type = "sessions_list"
          /\ DOMAIN sent'[1].msg.sessions = DOMAIN sessions
          /\ \A s \in DOMAIN sessions :
               /\ sent'[1].msg.sessions[s].id = sessions[s].id
               /\ sent'[1].msg.sessions[s].state = sessions[s].state
     /\ last'.op = "save" =>
          /\ DOMAIN fs'.file.data = DOMAIN sessions
          /\ \A s \in DOMAIN sessions :
               fs'.file.data[s].state = sessions[s].state
    ]_vars

\* a session was killed, the snapshot written after that holds it as dead,
\* and a socket that connected later was sent it in the sessions_list, dead
C37_Witness ==
  /\ last.op = "connect"
  /\ \E s \in DOMAIN sessions :
       /\ sessions[s].state = "dead"
       /\ proc[s] = "killed"
       /\ sent[1].msg.sessions[s].state = "dead"
       /\ fs.file.exists
       /\ fs.file.data[s].state = "dead"

\* C38 as stated: while a PIN is configured, the REST middleware and the
\* WebSocket upgrade accept a token only if it was issued for a submission
\* of the configured PIN; a token issued while no PIN was configured is not
\* accepted once a reload of the configuration has set one.
C38_OnlyEarnedTokensAccepted ==
  [][(/\ auth' # auth
      /\ auth.pin # ""
      /\ \/ auth'.reply.op = "rest" /\ auth'.reply.status = 200
         \/ auth'.reply.op = "ws" /\ auth'.reply.status = 101) =>
       auth'.reply.arg \in auth.earned]_vars

\* C40 as stated: after every server message the client has handled,
\* activeSessionId is null or the id of a session in the client's session
\* map, whether the message was a sessions_list, a session_created or a
\* session_killed.
C40_ActiveSessionKnown ==
  client.ev.op \in {"sessions_list", "session_created", "session_killed",
                    "session_state_changed"} =>
    \/ client.active = NoActive
    \/ client.active \in DOMAIN client.sessions

\* C33 as stated: a client that loads with a stored token the server
\* rejects is in the end shown the login screen.
C33_RejectedTokenLeadsToLogin ==
  (client.conn.serverPin /\ client.conn.token = "stale")
    ~> (client.conn.screen = "login")

\* C39 as stated: the client never has more than one WebSocket open with
\* its message handler attached, so a message the server broadcasts is
\* handled once.
C39_OneLiveConnection ==
  /\ Cardinality({s \in Slots : client.conn.socks[s].readyState = "OPEN"}) <= 1
  /\ client.conn.ev.op = "message" => client.conn.ev.handled = 1

=============================================================================
